---- MODULE Spec2Model ----
(***************************************************************************)
(* A model of the better-npm core (crates/better-core): the fetcher and    *)
(* the tarball / unpacked store (fetch_packages, cache_gc), and the        *)
(* file-level store with its ingester and materializers                    *)
(* (ingest_to_file_cas, materialize_from_file_cas, materialize_tree,       *)
(* try_clonefile_dir) as driven by the install command of main.rs.         *)
(*                                                                         *)
(* The filesystem is modelled with inodes: a path names an inode, an open  *)
(* file descriptor keeps writing to its inode after a rename, File::create *)
(* and fs::copy truncate the inode an existing path names.                 *)
(***************************************************************************)
EXTENDS Integers, Sequences, FiniteSets, TLC

\* ------------------------------------------------------------ bounds
\* chunks (tar entries) of one archive body; the download loop writes one
\* chunk per iteration
NChunks == 2
\* install runs of one behaviour
MaxRuns == 2
\* the clock (file modification times) runs from 1 to MaxClock
MaxClock == 2

\* the lockfile entries of one install
Pkgs == {1, 2}
\* sentinel value: the file does not exist
Absent == 0 - 1
\* modification time stored in the tar headers (older than every clock value)
ArchiveMtime == 0

\* ------------------------------------------------------------ digests
\* archive bodies: chunk i of archive a is tar entry i; 0 is a hole
GoodBody(a) == [i \in 1..NChunks |-> 10 * a + i]
BadBody == [i \in 1..NChunks |-> 90 + i]

\* hex digest of a content under an algorithm: injective, and hexes of
\* different algorithms never coincide (they differ in length)
Digest(algo, content) == <<algo, content>>
Sha512(content) == Digest("sha512", content)

\* (algorithm, hex) of an integrity string
Key(algo, a) == [algo |-> algo, hex |-> Digest(algo, GoodBody(a))]
K1 == Key("sha512", 1)
K2 == Key("sha512", 2)
K3 == Key("sha1", 2)
Keys == {K1, K2, K3}
\* resolved lockfiles: two install paths with one integrity, two distinct
\* sha512 integrities, a sha1 integrity beside a sha512 one
Lockfiles == {<<K1, K1>>, <<K1, K2>>, <<K3, K1>>}
\* the body that hashes to the key
BodyOf(k) == k.hex[2]

\* ------------------------------------------------------------ state
VARIABLES
  lock,      \* the resolved lockfile: package -> key
  now,       \* clock
  ino,       \* inode -> [c: content, mt: mtime]
  tmpPath,   \* key -> inode at tmp/<hex>.tgz.tmp, 0 if none
  tarPath,   \* key -> inode at store/tarballs/.../<hex>.tgz, 0 if none
  verified,  \* key -> mtime of <tarball>.verified, Absent if none
  marker,    \* key -> mtime of <unpacked>/.better_extracted, Absent if none
  unpacked,  \* key -> entry -> [v: content (0: no file), mt: mtime]
  pc,        \* package -> position of its fetch task
  fd,        \* package -> inode of its open file (0: none)
  off,       \* package -> chunks written / entries unpacked
  body,      \* package -> body the server sends it
  werr,      \* package -> error of its task
  fetchErr,  \* result of try_for_each so far
  fetched,   \* packages_fetched
  cached,    \* packages_cached
  phase,     \* install: "init", "fetch", "materialize", "exit0", "exit1"
  run,       \* number of install runs started
  matDone,   \* packages materialized by the current run
  rep,       \* run -> report of that run
  swept,     \* a cache gc sweep removed a file
  envFault,  \* a network or disk call has failed, or a server sent a wrong body
  conf,      \* install options: [dedup, strategy, cloneWorks]
  sino,      \* inode -> content, of the unpacked trees, the file store and the project
  spath,     \* hash -> inode at files/sha256/<aa>/<bb>/<hash>, 0 if none
  stmp,      \* hash -> inode at <store path>.tmp-<pid>, 0 if none
  mpath,     \* key -> inode at packages/<algo>/<hex>/manifest.json, 0 if none
  mtmp,      \* key -> inode at <manifest path>.tmp-<pid>, 0 if none
  dpath,     \* package -> file -> inode at node_modules/<package>/<file>, 0 if none
  ddir,      \* package -> node_modules/<package> exists
  mpc,       \* package -> position of its materialize task
  fi,        \* package -> file its task works on
  hs,        \* package -> file hashes its task holds (file_entries)
  wfd,       \* package -> inode its task has open for writing (0: none)
  rfd,       \* package -> inode its task has open for reading (0: none)
  cloned,    \* package -> try_clonefile_dir returned true
  how,       \* package -> strategy that reported success in this run
  first,     \* package -> file -> content of the destination after the first run
  ingRes,    \* package -> result of ingest_to_file_cas in this run
  tried,     \* package -> what its closure has called in this run, in order
  noRoot,    \* keys whose archive has no top-level package/ directory
  opc,       \* package -> position of its closure in the materialize phase
  materialize_error, \* the error slot of install: 0, or the package whose message it holds
  startSeq,  \* packages in the order their closures started
  failSeq,   \* packages in the order materialize_tree returned Err for them
  lockSeq,   \* packages in the order their closures locked the slot to store an error
  report,    \* report of install: [ok, reason]
  othr,      \* package -> the thread of the rayon pool its closure runs on (0: none yet)
  olate,     \* thread -> closures it let past line 650 after the slot was set
  queue,     \* tasks left in the queue of run_materialize_tasks_parallel
  first_error, \* the error slot of the pool: 0, or the task whose error it holds
  wpc,       \* worker -> position in its loop
  task,      \* worker -> the task it has popped last (0: none)
  late,      \* worker -> tasks it has popped after the slot was set
  outcome,   \* task -> "queued", "running", "ok" or "err"
  result,    \* what run_materialize_tasks_parallel returns: "none" until it does
  walk,      \* the files of node_modules in the order analyze meets them
  apos,      \* how many of them analyze has counted
  seen_global, \* identities analyze has inserted
  totals,    \* ScanAgg of the whole tree
  packages,  \* package -> its aggregate
  fsLink,    \* symlink of the walked tree -> what it points to
  wstack,    \* the stack of the walk: directories still to list
  wcount,    \* non-directory entry -> times the walk has counted it
  arg,       \* the argument of the function under check
  ret,       \* its result (<<>> before the call)
  shortcut,  \* package -> <<>>, or the result of its ingest when the manifest was there
  casStats,  \* package -> counters of its materialize_from_file_cas call
  counters,  \* MaterializeCounters of one call of materialize_tree
  execs      \* task -> times a worker has run it

fetchVars == <<lock, now, ino, tmpPath, tarPath, verified, marker, unpacked,
               pc, fd, off, body, werr, fetchErr, fetched, cached,
               phase, run, matDone, rep, swept, envFault>>
storeVars == <<conf, sino, spath, stmp, mpath, mtmp, dpath, ddir,
               mpc, fi, hs, wfd, rfd, cloned, how, first, ingRes, tried, noRoot, shortcut, casStats>>
orchVars == <<opc, materialize_error, startSeq, failSeq, lockSeq, report,
              othr, olate>>
poolVars == <<queue, first_error, wpc, task, late, outcome, result>>
analyzeVars == <<walk, apos, seen_global, totals, packages>>
walkVars == <<fsLink, wstack, wcount>>
pureVars == <<arg, ret>>
countVars == <<counters, execs>>
restVars == <<walkVars, pureVars, countVars>>
coreVars == <<fetchVars, storeVars, orchVars, poolVars, analyzeVars>>
sideVars == <<orchVars, poolVars, analyzeVars, restVars>>
vars == <<fetchVars, storeVars, sideVars>>

InoIds == 1..(MaxRuns * Cardinality(Pkgs))
NoIno == [c |-> <<>>, mt |-> 0]
NoFile == [v |-> 0, mt |-> 0]
NoRep == [ok |-> "none", fetched |-> 0, cached |-> 0]

\* write a chunk at position pos of a file (a gap is filled with zeros)
WriteAt(c, pos, v) ==
  [i \in 1..(IF Len(c) > pos THEN Len(c) ELSE pos) |->
     IF i = pos THEN v ELSE IF i <= Len(c) THEN c[i] ELSE 0]

\* inodes no path and no descriptor refers to are gone
LiveInos(data, tmp, tar, fds) ==
  [i \in InoIds |->
     IF (\E k \in Keys : tmp[k] = i \/ tar[k] = i) \/ (\E p \in Pkgs : fds[p] = i)
     THEN data[i] ELSE NoIno]

\* ------------------------------------------------------------ file store: names
\* files of a package root: entry f of the archive is file f of the package
Files == 1..NChunks
\* keys of the lockfiles the materializers are run on
StoreKeys == {K1, K2}
\* two install paths with one integrity, two distinct integrities
StoreLockfiles == {<<K1, K1>>, <<K1, K2>>}
LinkStrategies == {"auto", "hardlink", "copy"}
\* content of file f of the package root of key k
FileOf(k, f) == <<BodyOf(k)[f]>>
\* sha256 hex of a file content (hash_file): injective
Sha256(content) == IF content = <<>> THEN 100 ELSE 100 + content[1]
Hashes == {Sha256(<<>>)} \cup {Sha256(FileOf(k, f)) : k \in StoreKeys, f \in Files}
\* inode of file f of store/unpacked/<algo>/<hex>/package
UIno(k, f) == (IF k = K1 THEN 0 ELSE NChunks) + f
UInos == {UIno(k, f) : k \in StoreKeys, f \in Files}
\* inodes of the files the ingester and the materializers create
DynInos ==
  (2 * NChunks + 1)..(2 * NChunks + 2 * Cardinality(Hashes)
                        + 2 * Cardinality(StoreKeys)
                        + Cardinality(Pkgs) * (NChunks + 2))
SInos == UInos \cup DynInos
\* a destination file that does not exist, in a snapshot
NoDest == <<Absent>>

\* inodes a path or a descriptor refers to
Refs ==
  UInos
    \cup {spath[h] : h \in Hashes} \cup {stmp[h] : h \in Hashes}
    \cup {mpath[k] : k \in StoreKeys} \cup {mtmp[k] : k \in StoreKeys}
    \cup {dpath[p][f] : p \in Pkgs, f \in Files}
    \cup {wfd[p] : p \in Pkgs} \cup {rfd[p] : p \in Pkgs}
\* the n-th inode that is free
FreeIno(n) ==
  CHOOSE i \in DynInos \ Refs : Cardinality({j \in DynInos \ Refs : j < i}) = n - 1
\* inodes nothing refers to after the step are gone
Reap(data) == [i \in SInos |-> IF i \in Refs' THEN data[i] ELSE <<>>]

\* materialize_from_file_cas, lines 2321-2323: file_count, linked_count and copied_count of a call
NoStats == [files |-> 0, linked |-> 0, copied |-> 0]
\* lines 2342: one more file, and its hard link
CountLinked(st) == [st EXCEPT !.files = @ + 1, !.linked = @ + 1]
\* lines 2330, 2335-2337, 2346-2348: one more file, and its copy when fs::copy is Ok
CountCopy(st, copyOk) ==
  [st EXCEPT !.files = @ + 1, !.copied = IF copyOk THEN @ + 1 ELSE @]

\* the file store and the project before any materialization
StoreEmpty ==
  /\ sino = [i \in SInos |->
               IF \E k \in StoreKeys, f \in Files : i = UIno(k, f)
               THEN FileOf(CHOOSE k \in StoreKeys : \E f \in Files : i = UIno(k, f),
                           CHOOSE f \in Files : \E k \in StoreKeys : i = UIno(k, f))
               ELSE <<>>]
  /\ spath = [h \in Hashes |-> 0]
  /\ stmp = [h \in Hashes |-> 0]
  /\ mpath = [k \in StoreKeys |-> 0]
  /\ mtmp = [k \in StoreKeys |-> 0]
  /\ dpath = [p \in Pkgs |-> [f \in Files |-> 0]]
  /\ ddir = [p \in Pkgs |-> FALSE]
  /\ fi = [p \in Pkgs |-> 1]
  /\ hs = [p \in Pkgs |-> <<>>]
  /\ wfd = [p \in Pkgs |-> 0]
  /\ rfd = [p \in Pkgs |-> 0]
  /\ cloned = [p \in Pkgs |-> FALSE]
  /\ how = [p \in Pkgs |-> "none"]
  /\ first = [p \in Pkgs |-> [f \in Files |-> NoDest]]
  /\ ingRes = [p \in Pkgs |-> "none"]
  /\ tried = [p \in Pkgs |-> <<>>]
  /\ shortcut = [p \in Pkgs |-> <<>>]
  /\ casStats = [p \in Pkgs |-> NoStats]

\* the fetcher is modelled with the materializers at rest
StoreIdle ==
  /\ conf = [dedup |-> FALSE, strategy |-> "auto", cloneWorks |-> FALSE]
  /\ mpc = [p \in Pkgs |-> "idle"]
  /\ StoreEmpty
  /\ noRoot = {}

\* Packages of the lockfile the materialize phase of install is run on
NPkgs == 3
OPkgs == 1..NPkgs
\* worker threads of the rayon pool
Threads == 2
NoReport == [ok |-> "none", reason |-> 0]
\* the materialize phase of install before its par_iter starts
OrchStart ==
  /\ opc = [p \in OPkgs |-> "queued"]
  /\ materialize_error = 0
  /\ startSeq = <<>>
  /\ failSeq = <<>>
  /\ lockSeq = <<>>
  /\ report = NoReport
  /\ othr = [p \in OPkgs |-> 0]
  /\ olate = [t \in 1..Threads |-> 0]
\* tasks handed to one call of run_materialize_tasks_parallel
NTasks == 3
Tasks == 1..NTasks
\* the jobs argument of the call
Jobs == 2
\* lib.rs 774: worker_count
Workers == 1..(IF Jobs < NTasks THEN Jobs ELSE NTasks)
\* lib.rs 772-773: the queue holds every task, the slot is empty
PoolStart ==
  /\ queue = NTasks
  /\ first_error = 0
  /\ wpc = [w \in Workers |-> "check"]
  /\ task = [w \in Workers |-> 0]
  /\ late = [w \in Workers |-> 0]
  /\ outcome = [t \in Tasks |-> "queued"]
  /\ result = "none"
\* files analyze meets in one walk
MaxObs == 3
\* (dev, ino) of the files of the tree
Identities == {<<0, 0>>, <<0, 1>>, <<1, 1>>, <<1, 2>>}
\* packages of the tree; owner 0 is a file outside every package directory
APkgs == 1..2
Owners == {0} \cup APkgs
\* st_size and st_blocks of the file with an identity
LenOf(id) == IF id = <<1, 1>> THEN 100 ELSE IF id = <<1, 2>> THEN 512
             ELSE IF id = <<0, 1>> THEN 3 ELSE 7
BlocksOf(id) == IF id = <<1, 1>> THEN 8 ELSE IF id = <<1, 2>> THEN 1 ELSE 0
NoAgg == [file_count |-> 0, logical |-> 0, physical |-> 0, shared |-> 0,
          approx |-> FALSE]
\* lib.rs 1009-1017: analyze before the walk
AnalyzeStart ==
  /\ apos = 0
  /\ seen_global = {}
  /\ totals = NoAgg
  /\ packages = [o \in APkgs |-> NoAgg]
\* the parts of the model that are at rest while the fetcher or the file
\* store is modelled
\* symlinks of the walked tree
LinkNames == {"l", "m"}
\* non-directory entries the tree can hold
EntryNames == {"f", "g"} \cup LinkNames
\* no walk is under way
WalkIdle ==
  /\ fsLink = [n \in LinkNames |-> 0]
  /\ wstack = <<>>
  /\ wcount = [n \in EntryNames |-> 0]
\* no function is under check
PureIdle == arg = <<>> /\ ret = <<>>
\* lib.rs 97-106, 938: MaterializeCounters::default()
NoCounters ==
  [files |-> 0, files_linked |-> 0, files_copied |-> 0, link_fallback_copies |-> 0,
   fallback_eperm |-> 0, fallback_exdev |-> 0, fallback_other |-> 0, symlinks |-> 0]
CountIdle ==
  /\ counters = NoCounters
  /\ execs = [t \in Tasks |-> 0]
RestIdle == WalkIdle /\ PureIdle /\ CountIdle
SideIdle == OrchStart /\ PoolStart /\ AnalyzeStart /\ walk = <<>> /\ RestIdle

\* the store before the first fetch
FetchIdle ==
  /\ now = 1
  /\ ino = [i \in InoIds |-> NoIno]
  /\ tmpPath = [k \in Keys |-> 0]
  /\ tarPath = [k \in Keys |-> 0]
  /\ verified = [k \in Keys |-> Absent]
  /\ marker = [k \in Keys |-> Absent]
  /\ unpacked = [k \in Keys |-> [i \in 1..NChunks |-> NoFile]]
  /\ pc = [p \in Pkgs |-> "queued"]
  /\ fd = [p \in Pkgs |-> 0]
  /\ off = [p \in Pkgs |-> 0]
  /\ body = [p \in Pkgs |-> <<>>]
  /\ werr = [p \in Pkgs |-> "none"]
  /\ fetchErr = "none"
  /\ fetched = 0
  /\ cached = 0
  /\ phase = "init"
  /\ run = 0
  /\ matDone = {}
  /\ rep = [r \in 1..MaxRuns |-> NoRep]
  /\ swept = FALSE
  /\ envFault = FALSE

FetchInit ==
  /\ lock \in Lockfiles
  /\ FetchIdle
  /\ StoreIdle
  /\ SideIdle

\* ------------------------------------------------------------ fetch_packages
\* mutant of IsCached: the extraction marker is not looked at
IsCachedVerifiedOnly(k) == verified[k] # Absent
\* line 1710: both sentinels exist
IsCached(k) == verified[k] # Absent /\ marker[k] # Absent
\* line 1716: the tarball or its sentinel is missing
NeedsDownload(k) == tarPath[k] = 0 \/ verified[k] = Absent
\* line 1767: the comparison that rejects a body
IntegrityMismatch(algo, computed_hex, hex) == algo = "sha512" /\ computed_hex # hex
\* a tar entry can be read from the (gzip) stream
EntryReadable(c, i) == i <= Len(c) /\ c[i] # 0

\* the task of package p ends with an error (the `?` of the closure);
\* try_for_each keeps the first error
Fail(p, kind) ==
  /\ pc' = [pc EXCEPT ![p] = "failed"]
  /\ werr' = [werr EXCEPT ![p] = kind]
  /\ fetchErr' = IF fetchErr = "none" THEN kind ELSE fetchErr
  /\ fd' = [fd EXCEPT ![p] = 0]
  /\ off' = [off EXCEPT ![p] = 0]
  /\ ino' = LiveInos(ino, tmpPath, tarPath, [fd EXCEPT ![p] = 0])

\* main.rs: the install command starts; its fetch phase queues every package
StartInstall ==
  /\ phase \in {"init", "exit0", "exit1"}
  /\ run < MaxRuns
  /\ run' = run + 1
  /\ phase' = "fetch"
  /\ pc' = [p \in Pkgs |-> "queued"]
  /\ fd' = [p \in Pkgs |-> 0]
  /\ off' = [p \in Pkgs |-> 0]
  /\ body' = [p \in Pkgs |-> <<>>]
  /\ werr' = [p \in Pkgs |-> "none"]
  /\ fetchErr' = "none"
  /\ fetched' = 0
  /\ cached' = 0
  /\ matDone' = {}
  /\ UNCHANGED <<lock, now, ino, tmpPath, tarPath, verified, marker, unpacked, rep, swept, envFault>>
  /\ UNCHANGED <<storeVars, sideVars>>

\* mutant of CheckCached: the cached package is not counted
CheckCachedNoCount(p) ==
  /\ phase = "fetch" /\ pc[p] = "queued" /\ fetchErr = "none"
  /\ pc' = [pc EXCEPT ![p] = IF IsCached(lock[p]) THEN "done" ELSE "chkdl"]
  /\ UNCHANGED <<lock, now, ino, tmpPath, tarPath, verified, marker, unpacked,
                 fd, off, body, werr, fetchErr, fetched, cached, phase, run,
                 matDone, rep, swept, envFault>>
  /\ UNCHANGED <<storeVars, sideVars>>

\* lines 1699-1713: a pool thread takes package p (none is taken once a task
\* has failed) and checks the two sentinels
CheckCached(p) ==
  /\ phase = "fetch" /\ pc[p] = "queued" /\ fetchErr = "none"
  /\ IF IsCached(lock[p])
     THEN /\ cached' = cached + 1
          /\ pc' = [pc EXCEPT ![p] = "done"]
     ELSE /\ cached' = cached
          /\ pc' = [pc EXCEPT ![p] = "chkdl"]
  /\ UNCHANGED <<lock, now, ino, tmpPath, tarPath, verified, marker, unpacked,
                 fd, off, body, werr, fetchErr, fetched, phase, run,
                 matDone, rep, swept, envFault>>
  /\ UNCHANGED <<storeVars, sideVars>>

\* lines 1716, 1780-1782
CheckDownload(p) ==
  /\ phase = "fetch" /\ pc[p] = "chkdl"
  /\ IF NeedsDownload(lock[p])
     THEN /\ cached' = cached
          /\ pc' = [pc EXCEPT ![p] = "create"]
     ELSE /\ cached' = cached + 1
          /\ pc' = [pc EXCEPT ![p] = "chkex"]
  /\ UNCHANGED <<lock, now, ino, tmpPath, tarPath, verified, marker, unpacked,
                 fd, off, body, werr, fetchErr, fetched, phase, run,
                 matDone, rep, swept, envFault>>
  /\ UNCHANGED <<storeVars, sideVars>>

\* the inode File::create gives the task of p: the one tmp/<hex>.tgz.tmp
\* names, truncated, or a new one
TmpInode(p) ==
  IF tmpPath[lock[p]] # 0 THEN tmpPath[lock[p]]
  ELSE (run - 1) * Cardinality(Pkgs) + p

\* lines 1723-1735: GET the url (the server answers with the right body or
\* another one) and File::create the temp file, named after the hex alone
CreateTmp(p) ==
  /\ phase = "fetch" /\ pc[p] = "create"
  /\ \E b \in {BodyOf(lock[p]), BadBody} :
       /\ body' = [body EXCEPT ![p] = b]
       /\ envFault' = (envFault \/ b # BodyOf(lock[p]))
  /\ tmpPath' = [tmpPath EXCEPT ![lock[p]] = TmpInode(p)]
  /\ ino' = [ino EXCEPT ![TmpInode(p)] = [c |-> <<>>, mt |-> now]]
  /\ fd' = [fd EXCEPT ![p] = TmpInode(p)]
  /\ off' = [off EXCEPT ![p] = 0]
  /\ pc' = [pc EXCEPT ![p] = "write"]
  /\ UNCHANGED <<lock, now, tarPath, verified, marker, unpacked, werr,
                 fetchErr, fetched, cached, phase, run, matDone, rep, swept>>
  /\ UNCHANGED <<storeVars, sideVars>>

\* lines 1737-1748: one iteration of the download loop: write_all of the next
\* chunk at the descriptor's offset; after the last chunk the loop ends
WriteChunk(p) ==
  /\ phase = "fetch" /\ pc[p] = "write" /\ off[p] < Len(body[p])
  /\ ino' = [ino EXCEPT ![fd[p]] =
               [c |-> WriteAt(ino[fd[p]].c, off[p] + 1, body[p][off[p] + 1]), mt |-> now]]
  /\ IF off[p] + 1 = Len(body[p])
     THEN /\ pc' = [pc EXCEPT ![p] = "verify"]
          /\ off' = [off EXCEPT ![p] = 0]
     ELSE /\ pc' = pc
          /\ off' = [off EXCEPT ![p] = off[p] + 1]
  /\ UNCHANGED <<lock, now, tmpPath, tarPath, verified, marker, unpacked, fd, body,
                 werr, fetchErr, fetched, cached, phase, run, matDone,
                 rep, swept, envFault>>
  /\ UNCHANGED <<storeVars, sideVars>>

\* lines 1750-1769: reopen the temp file by its path, hash what it holds now
Verify(p) ==
  /\ phase = "fetch" /\ pc[p] = "verify"
  /\ IF tmpPath[lock[p]] = 0
     THEN Fail(p, "io")
     ELSE LET computed_hex == Sha512(ino[tmpPath[lock[p]]].c) IN
          IF IntegrityMismatch(lock[p].algo, computed_hex, lock[p].hex)
          THEN Fail(p, "mismatch")
          ELSE /\ pc' = [pc EXCEPT ![p] = "rename"]
               /\ UNCHANGED <<werr, fetchErr, fd, ino, off>>
  /\ UNCHANGED <<lock, now, tmpPath, tarPath, verified, marker, unpacked, body,
                 fetched, cached, phase, run, matDone, rep, swept, envFault>>
  /\ UNCHANGED <<storeVars, sideVars>>

\* lines 1771-1773: fs::rename(tmp_file, tarball)
Rename(p) ==
  /\ phase = "fetch" /\ pc[p] = "rename"
  /\ IF tmpPath[lock[p]] = 0
     THEN /\ Fail(p, "io")
          /\ UNCHANGED <<tmpPath, tarPath>>
     ELSE /\ tarPath' = [tarPath EXCEPT ![lock[p]] = tmpPath[lock[p]]]
          /\ tmpPath' = [tmpPath EXCEPT ![lock[p]] = 0]
          /\ ino' = LiveInos(ino, tmpPath', tarPath', fd)
          /\ pc' = [pc EXCEPT ![p] = "mark"]
          /\ UNCHANGED <<werr, fetchErr, fd, off>>
  /\ UNCHANGED <<lock, now, verified, marker, unpacked, body, fetched, cached, phase, run, matDone, rep, swept, envFault>>
  /\ UNCHANGED <<storeVars, sideVars>>

\* mutant of WriteVerified: the downloaded package is not counted
WriteVerifiedNoCount(p) ==
  /\ phase = "fetch" /\ pc[p] = "mark"
  /\ verified' = [verified EXCEPT ![lock[p]] = now]
  /\ fetched' = fetched
  /\ fd' = [fd EXCEPT ![p] = 0]
  /\ ino' = LiveInos(ino, tmpPath, tarPath, fd')
  /\ pc' = [pc EXCEPT ![p] = "chkex"]
  /\ UNCHANGED <<lock, now, tmpPath, tarPath, marker, unpacked, off, body,
                 werr, fetchErr, cached, phase, run, matDone, rep, swept, envFault>>
  /\ UNCHANGED <<storeVars, sideVars>>

\* lines 1775-1779: write the .verified sentinel, count the package as fetched
WriteVerified(p) ==
  /\ phase = "fetch" /\ pc[p] = "mark"
  /\ verified' = [verified EXCEPT ![lock[p]] = now]
  /\ fetched' = fetched + 1
  /\ fd' = [fd EXCEPT ![p] = 0]
  /\ ino' = LiveInos(ino, tmpPath, tarPath, fd')
  /\ pc' = [pc EXCEPT ![p] = "chkex"]
  /\ UNCHANGED <<lock, now, tmpPath, tarPath, marker, unpacked, off, body,
                 werr, fetchErr, cached, phase, run, matDone, rep, swept, envFault>>
  /\ UNCHANGED <<storeVars, sideVars>>

\* lines 1784-1794: extraction is needed when the marker is missing; open the tarball
CheckExtract(p) ==
  /\ phase = "fetch" /\ pc[p] = "chkex"
  /\ IF marker[lock[p]] # Absent
     THEN /\ pc' = [pc EXCEPT ![p] = "done"]
          /\ UNCHANGED <<werr, fetchErr, fd, ino, off>>
     ELSE IF tarPath[lock[p]] = 0
          THEN Fail(p, "io")
          ELSE /\ fd' = [fd EXCEPT ![p] = tarPath[lock[p]]]
               /\ pc' = [pc EXCEPT ![p] = "unpack"]
               /\ UNCHANGED <<werr, fetchErr, ino, off>>
  /\ UNCHANGED <<lock, now, tmpPath, tarPath, verified, marker, unpacked, body,
                 fetched, cached, phase, run, matDone, rep, swept, envFault>>
  /\ UNCHANGED <<storeVars, sideVars>>

\* lines 1796-1797: archive.unpack writes the next entry of the stream, with
\* the modification time of its tar header (the tar crate preserves mtimes
\* unless told otherwise); a stream that ends early or is damaged fails the task
UnpackEntry(p) ==
  /\ phase = "fetch" /\ pc[p] = "unpack"
  /\ IF EntryReadable(ino[fd[p]].c, off[p] + 1)
     THEN /\ unpacked' = [unpacked EXCEPT ![lock[p]][off[p] + 1] =
                          [v |-> ino[fd[p]].c[off[p] + 1], mt |-> ArchiveMtime]]
          /\ IF off[p] + 1 = NChunks
             THEN /\ pc' = [pc EXCEPT ![p] = "wmark"]
                  /\ off' = [off EXCEPT ![p] = 0]
                  /\ fd' = [fd EXCEPT ![p] = 0]
                  /\ ino' = LiveInos(ino, tmpPath, tarPath, fd')
             ELSE /\ off' = [off EXCEPT ![p] = off[p] + 1]
                  /\ UNCHANGED <<pc, fd, ino>>
          /\ UNCHANGED <<werr, fetchErr>>
     ELSE /\ Fail(p, "corrupt")
          /\ UNCHANGED unpacked
  /\ UNCHANGED <<lock, now, tmpPath, tarPath, verified, marker, body, fetched, cached, phase, run, matDone, rep, swept, envFault>>
  /\ UNCHANGED <<storeVars, sideVars>>

\* lines 1799-1801: write the extraction marker
WriteMarker(p) ==
  /\ phase = "fetch" /\ pc[p] = "wmark"
  /\ marker' = [marker EXCEPT ![lock[p]] = now]
  /\ pc' = [pc EXCEPT ![p] = "done"]
  /\ UNCHANGED <<lock, now, ino, tmpPath, tarPath, verified, unpacked, fd, off, body,
                 werr, fetchErr, fetched, cached, phase, run, matDone,
                 rep, swept, envFault>>
  /\ UNCHANGED <<storeVars, sideVars>>

\* any filesystem or network call of the task fails (each carries a `?`)
IoFail(p) ==
  /\ phase = "fetch"
  /\ pc[p] \in {"create", "write", "verify", "rename", "mark", "chkex", "unpack", "wmark"}
  /\ Fail(p, "env")
  /\ envFault' = TRUE
  /\ UNCHANGED <<lock, now, tmpPath, tarPath, verified, marker, unpacked, body,
                 fetched, cached, phase, run, matDone, rep, swept>>
  /\ UNCHANGED <<storeVars, sideVars>>

\* lines 1805-1811 and main.rs 605-617: try_for_each has no task in flight;
\* an error makes install print the report and exit 1
FetchReturn ==
  /\ phase = "fetch"
  /\ \A p \in Pkgs : pc[p] \in {"queued", "done", "failed"}
  /\ fetchErr # "none" \/ \A p \in Pkgs : pc[p] = "done"
  /\ IF fetchErr # "none"
     THEN /\ phase' = "exit1"
          /\ rep' = [rep EXCEPT ![run] = [ok |-> "fail", fetched |-> 0, cached |-> 0]]
     ELSE /\ phase' = "materialize"
          /\ rep' = rep
  /\ UNCHANGED <<lock, now, ino, tmpPath, tarPath, verified, marker, unpacked, pc, fd,
                 off, body, werr, fetchErr, fetched, cached, run, matDone,
                 swept, envFault>>
  /\ UNCHANGED <<storeVars, sideVars>>

\* main.rs 649-707: the materialize phase handles package p
MaterializePkg(p) ==
  /\ phase = "materialize" /\ p \notin matDone
  /\ matDone' = matDone \cup {p}
  /\ UNCHANGED <<lock, now, ino, tmpPath, tarPath, verified, marker, unpacked, pc, fd,
                 off, body, werr, fetchErr, fetched, cached, phase, run,
                 rep, swept, envFault>>
  /\ UNCHANGED <<storeVars, sideVars>>

\* main.rs 745-758: the report carries the counters of fetch_packages; exit 0
Report ==
  /\ phase = "materialize" /\ matDone = Pkgs
  /\ rep' = [rep EXCEPT ![run] = [ok |-> "ok", fetched |-> fetched, cached |-> cached]]
  /\ phase' = "exit0"
  /\ UNCHANGED <<lock, now, ino, tmpPath, tarPath, verified, marker, unpacked, pc, fd,
                 off, body, werr, fetchErr, fetched, cached, run, matDone,
                 swept, envFault>>
  /\ UNCHANGED <<storeVars, sideVars>>

\* time passes
Tick ==
  /\ now < MaxClock
  /\ now' = now + 1
  /\ UNCHANGED <<lock, ino, tmpPath, tarPath, verified, marker, unpacked, pc, fd, off,
                 body, werr, fetchErr, fetched, cached, phase, run, matDone,
                 rep, swept, envFault>>
  /\ UNCHANGED <<storeVars, sideVars>>

\* ------------------------------------------------------------ cache_gc
\* gc_walk, line 3724: the file is older than the cutoff
Expired(mtime, cutoff) == mtime < cutoff

\* lines 3693-3736: a sweep of store/tarballs and store/unpacked between two
\* installs, cutoff = now - max_age_days * 86400
CacheGc(cutoff) ==
  /\ phase \in {"init", "exit0", "exit1"}
  /\ tarPath' = [k \in Keys |->
                   IF tarPath[k] # 0 /\ Expired(ino[tarPath[k]].mt, cutoff) THEN 0 ELSE tarPath[k]]
  /\ verified' = [k \in Keys |->
                   IF verified[k] # Absent /\ Expired(verified[k], cutoff) THEN Absent ELSE verified[k]]
  /\ marker' = [k \in Keys |->
                   IF marker[k] # Absent /\ Expired(marker[k], cutoff) THEN Absent ELSE marker[k]]
  /\ unpacked' = [k \in Keys |-> [i \in 1..NChunks |->
                   IF unpacked[k][i].v # 0 /\ Expired(unpacked[k][i].mt, cutoff)
                   THEN NoFile ELSE unpacked[k][i]]]
  /\ ino' = LiveInos(ino, tmpPath, tarPath', fd)
  /\ swept' = (swept \/ <<tarPath', verified', marker', unpacked'>> # <<tarPath, verified, marker, unpacked>>)
  /\ UNCHANGED <<lock, now, tmpPath, pc, fd, off, body, werr, fetchErr,
                 fetched, cached, phase, run, matDone, rep, envFault>>
  /\ UNCHANGED <<storeVars, sideVars>>

FetchNext ==
  \/ StartInstall
  \/ \E p \in Pkgs : CheckCached(p)
  \/ \E p \in Pkgs : CheckDownload(p)
  \/ \E p \in Pkgs : CreateTmp(p)
  \/ \E p \in Pkgs : WriteChunk(p)
  \/ \E p \in Pkgs : Verify(p)
  \/ \E p \in Pkgs : Rename(p)
  \/ \E p \in Pkgs : WriteVerified(p)
  \/ \E p \in Pkgs : CheckExtract(p)
  \/ \E p \in Pkgs : UnpackEntry(p)
  \/ \E p \in Pkgs : WriteMarker(p)
  \/ \E p \in Pkgs : IoFail(p)
  \/ FetchReturn
  \/ \E p \in Pkgs : MaterializePkg(p)
  \/ Report
  \/ Tick
  \/ \E cutoff \in 1..now : CacheGc(cutoff)

SpecFetch == FetchInit /\ [][FetchNext]_vars

\* ------------------------------------------------------------ install, step 3
\* the variables of the fetcher that the materializers leave alone
fetchRest == <<now, ino, tmpPath, tarPath, verified, marker, unpacked, pc, fd, off,
               body, werr, fetchErr, fetched, cached, matDone, rep, swept, envFault,
               sideVars>>
\* what a step of a package task leaves alone
taskFrame == <<lock, phase, run, fetchRest, conf, first>>

\* the state when fetch_packages of the first install has returned Ok: every
\* key of the lockfile has its tarball, both sentinels and its unpacked tree
StoreInit ==
  /\ lock \in StoreLockfiles
  /\ conf \in [dedup : BOOLEAN, strategy : LinkStrategies, cloneWorks : BOOLEAN]
  /\ now = 1
  /\ tmpPath = [k \in Keys |-> 0]
  /\ tarPath = [k \in Keys |-> IF k = lock[1] THEN 1 ELSE IF k = lock[2] THEN 2 ELSE 0]
  /\ ino = [i \in InoIds |->
              IF \E k \in Keys : tarPath[k] = i
              THEN [c |-> BodyOf(CHOOSE k \in Keys : tarPath[k] = i), mt |-> 1]
              ELSE NoIno]
  /\ verified = [k \in Keys |-> IF tarPath[k] # 0 THEN 1 ELSE Absent]
  /\ marker = [k \in Keys |-> IF tarPath[k] # 0 THEN 1 ELSE Absent]
  /\ unpacked = [k \in Keys |-> [i \in 1..NChunks |->
                   IF tarPath[k] # 0 THEN [v |-> BodyOf(k)[i], mt |-> ArchiveMtime]
                   ELSE NoFile]]
  /\ pc = [p \in Pkgs |-> "done"]
  /\ fd = [p \in Pkgs |-> 0]
  /\ off = [p \in Pkgs |-> 0]
  /\ body = [p \in Pkgs |-> <<>>]
  /\ werr = [p \in Pkgs |-> "none"]
  /\ fetchErr = "none"
  /\ fetched = Cardinality({lock[p] : p \in Pkgs})
  /\ cached = Cardinality(Pkgs) - Cardinality({lock[p] : p \in Pkgs})
  /\ phase = "materialize"
  /\ run = 1
  /\ matDone = {}
  /\ rep = [r \in 1..MaxRuns |-> NoRep]
  /\ swept = FALSE
  /\ envFault = FALSE
  /\ SideIdle
  /\ mpc = [p \in Pkgs |-> "start"]
  /\ noRoot \in SUBSET ({lock[p] : p \in Pkgs} \ {K1})
  /\ StoreEmpty

\* main.rs 649-661, 676-677: the closure of one package starts its ladder;
\* line 654: it returns when the unpacked archive has no package/ directory
PkgStart(p) ==
  /\ phase = "materialize"
  /\ mpc[p] = "start"
  /\ mpc' = [mpc EXCEPT ![p] = IF lock[p] \in noRoot THEN "done"
                              ELSE IF conf.dedup THEN "ing_chk" ELSE "clone"]
  /\ UNCHANGED <<taskFrame, sino, spath, stmp, mpath, mtmp, dpath, ddir,
                 fi, hs, wfd, rfd, cloned, how>>
  /\ UNCHANGED ingRes
  /\ UNCHANGED tried
  /\ UNCHANGED noRoot
  /\ UNCHANGED shortcut
  /\ UNCHANGED casStats

\* ------------------------------------------------------------ ingest_to_file_cas
\* mutant of AfterIngest: the closure goes on after a successful clone
AfterIngestNoStop(p) == "mat_read"
\* main.rs 662-663, 679-683: the result of the ingest is dropped; after a
\* clone the closure returns, otherwise it materializes from the file store
AfterIngest(p) == IF cloned[p] THEN "done" ELSE "mat_read"
\* the loop over n entries moves on from entry fi[p]
NextFi(p, n) == IF fi[p] < n THEN fi[p] + 1 ELSE 1

\* line 1903: the occurrences of "type":"file" in the manifest; every
\* entry of the model's manifest is a file entry
CountFileEntries(manifest) == Len(manifest)

\* mutant of ShortcutResult: the result of an ingest that stored the files
FreshResult(k) ==
  [reused |-> FALSE, new_files |-> CountFileEntries(sino[mpath[k]]),
   total_files |-> CountFileEntries(sino[mpath[k]])]

\* lines 1905-1911: the result of the early return
ShortcutResult(k) ==
  [reused |-> TRUE, new_files |-> 0,
   total_files |-> CountFileEntries(sino[mpath[k]])]

\* lines 1894-1912: the manifest exists, the package is taken as ingested
IngestCheck(p) ==
  /\ mpc[p] = "ing_chk"
  /\ IF mpath[lock[p]] # 0
     THEN /\ mpc' = [mpc EXCEPT ![p] = AfterIngest(p)]
          /\ ingRes' = [ingRes EXCEPT ![p] = "ok"]
          /\ shortcut' = [shortcut EXCEPT ![p] = <<ShortcutResult(lock[p])>>]
          /\ UNCHANGED <<fi, hs>>
     ELSE /\ mpc' = [mpc EXCEPT ![p] = "ing_hash"]
          /\ fi' = [fi EXCEPT ![p] = 1]
          /\ hs' = [hs EXCEPT ![p] = <<>>]
          /\ UNCHANGED <<ingRes, shortcut>>
  /\ UNCHANGED <<taskFrame, sino, spath, stmp, mpath, mtmp, dpath, ddir,
                 wfd, rfd, cloned, how>>
  /\ tried' = [tried EXCEPT ![p] = Append(@, "ingest")]
  /\ UNCHANGED noRoot
  /\ UNCHANGED casStats

\* lines 1964-1973, 1993-1997: hash the file; a file the store has is skipped
IngestHash(p) ==
  /\ mpc[p] = "ing_hash"
  /\ LET h == Sha256(sino[UIno(lock[p], fi[p])]) IN
       /\ hs' = [hs EXCEPT ![p] = Append(hs[p], h)]
       /\ IF spath[h] = 0
          THEN /\ mpc' = [mpc EXCEPT ![p] = "ing_open"]
               /\ UNCHANGED fi
          ELSE /\ mpc' = [mpc EXCEPT ![p] =
                            IF fi[p] < NChunks THEN "ing_hash" ELSE "man_open"]
               /\ fi' = [fi EXCEPT ![p] = NextFi(p, NChunks)]
  /\ UNCHANGED <<taskFrame, sino, spath, stmp, mpath, mtmp, dpath, ddir,
                 wfd, rfd, cloned, how>>
  /\ UNCHANGED ingRes
  /\ UNCHANGED tried
  /\ UNCHANGED noRoot
  /\ UNCHANGED shortcut
  /\ UNCHANGED casStats

\* lines 1981-1982: fs::copy creates <store path>.tmp-<pid>, or truncates the
\* file that is there
IngestCopyOpen(p) ==
  /\ mpc[p] = "ing_open"
  /\ mpc' = [mpc EXCEPT ![p] = "ing_write"]
  /\ LET h == hs[p][fi[p]]
         i == IF stmp[h] # 0 THEN stmp[h] ELSE FreeIno(1) IN
       /\ stmp' = [stmp EXCEPT ![h] = i]
       /\ wfd' = [wfd EXCEPT ![p] = i]
       /\ UNCHANGED <<taskFrame, spath, mpath, mtmp, dpath, ddir, fi, hs, rfd,
                      cloned, how>>
       /\ sino' = Reap([sino EXCEPT ![i] = <<>>])
  /\ UNCHANGED ingRes
  /\ UNCHANGED tried
  /\ UNCHANGED noRoot
  /\ UNCHANGED shortcut
  /\ UNCHANGED casStats

\* line 1982: fs::copy writes the bytes of the unpacked file to the file it
\* has opened
IngestCopyWrite(p) ==
  /\ mpc[p] = "ing_write"
  /\ mpc' = [mpc EXCEPT ![p] = "ing_rename"]
  /\ wfd' = [wfd EXCEPT ![p] = 0]
  /\ UNCHANGED <<taskFrame, spath, stmp, mpath, mtmp, dpath, ddir, fi, hs, rfd,
                 cloned, how>>
  /\ sino' = Reap([sino EXCEPT ![wfd[p]] = sino[UIno(lock[p], fi[p])]])
  /\ UNCHANGED ingRes
  /\ UNCHANGED tried
  /\ UNCHANGED noRoot
  /\ UNCHANGED shortcut
  /\ UNCHANGED casStats

\* lines 1985-1992: rename the temp file to the store path; when the temp
\* file is gone the error is dropped
IngestRename(p) ==
  /\ mpc[p] = "ing_rename"
  /\ mpc' = [mpc EXCEPT ![p] = IF fi[p] < NChunks THEN "ing_hash" ELSE "man_open"]
  /\ fi' = [fi EXCEPT ![p] = NextFi(p, NChunks)]
  /\ LET h == hs[p][fi[p]] IN
       IF stmp[h] # 0
       THEN /\ spath' = [spath EXCEPT ![h] = stmp[h]]
            /\ stmp' = [stmp EXCEPT ![h] = 0]
       ELSE UNCHANGED <<spath, stmp>>
  /\ UNCHANGED <<taskFrame, mpath, mtmp, dpath, ddir, hs, wfd, rfd, cloned, how>>
  /\ sino' = Reap(sino)
  /\ UNCHANGED ingRes
  /\ UNCHANGED tried
  /\ UNCHANGED noRoot
  /\ UNCHANGED shortcut
  /\ UNCHANGED casStats

\* lines 2125-2126: fs::write creates <manifest path>.tmp-<pid>, or truncates
\* the file that is there
ManifestOpen(p) ==
  /\ mpc[p] = "man_open"
  /\ mpc' = [mpc EXCEPT ![p] = "man_write"]
  /\ LET k == lock[p]
         i == IF mtmp[k] # 0 THEN mtmp[k] ELSE FreeIno(1) IN
       /\ mtmp' = [mtmp EXCEPT ![k] = i]
       /\ wfd' = [wfd EXCEPT ![p] = i]
       /\ UNCHANGED <<taskFrame, spath, stmp, mpath, dpath, ddir, fi, hs, rfd,
                      cloned, how>>
       /\ sino' = Reap([sino EXCEPT ![i] = <<>>])
  /\ UNCHANGED ingRes
  /\ UNCHANGED tried
  /\ UNCHANGED noRoot
  /\ UNCHANGED shortcut
  /\ UNCHANGED casStats

\* lines 2066-2118, 2126: the manifest lists the hash of every file
ManifestWrite(p) ==
  /\ mpc[p] = "man_write"
  /\ mpc' = [mpc EXCEPT ![p] = "man_rename"]
  /\ wfd' = [wfd EXCEPT ![p] = 0]
  /\ UNCHANGED <<taskFrame, spath, stmp, mpath, mtmp, dpath, ddir, fi, hs, rfd,
                 cloned, how>>
  /\ sino' = Reap([sino EXCEPT ![wfd[p]] = hs[p]])
  /\ UNCHANGED ingRes
  /\ UNCHANGED tried
  /\ UNCHANGED noRoot
  /\ UNCHANGED shortcut
  /\ UNCHANGED casStats

\* lines 2129-2138: rename the temp manifest; a missing temp file is an Err,
\* which install drops
ManifestRename(p) ==
  /\ mpc[p] = "man_rename"
  /\ mpc' = [mpc EXCEPT ![p] = AfterIngest(p)]
  /\ LET k == lock[p] IN
       IF mtmp[k] # 0
       THEN /\ mpath' = [mpath EXCEPT ![k] = mtmp[k]]
            /\ ingRes' = [ingRes EXCEPT ![p] = "ok"]
            /\ mtmp' = [mtmp EXCEPT ![k] = 0]
       ELSE /\ UNCHANGED <<mpath, mtmp>>
            /\ ingRes' = [ingRes EXCEPT ![p] = "err"]
  /\ UNCHANGED <<taskFrame, spath, stmp, dpath, ddir, fi, hs, wfd, rfd, cloned, how>>
  /\ sino' = Reap(sino)
  /\ UNCHANGED tried
  /\ UNCHANGED noRoot
  /\ UNCHANGED shortcut
  /\ UNCHANGED casStats

\* ------------------------------------------------------------ materialize_from_file_cas
\* main.rs 663-672, 683-694: the ladder goes on when the file store did not
\* report ok with at least one file
MatFailPc == IF conf.dedup THEN "clone" ELSE "tree_scan"
\* lines 2334-2341: the arm of the link strategy
MatEntryPc == IF conf.strategy = "copy" THEN "mat_open" ELSE "mat_link"
\* after entry fi[p] of the manifest
MatNextPc(p) == IF fi[p] < Len(hs[p]) THEN MatEntryPc ELSE "done"
\* lines 2355-2361, 2397, main.rs 664-670: ok with files > 0 after the last entry
MatHow(p) == IF fi[p] < Len(hs[p]) THEN how[p] ELSE "cas"

\* lines 2150-2317: read the manifest, collect its entries, create the
\* directories; no manifest is ok = false, a manifest with no entry gives
\* files = 0
MatRead(p) ==
  /\ mpc[p] = "mat_read"
  /\ LET k == lock[p] IN
       IF mpath[k] = 0
       THEN /\ mpc' = [mpc EXCEPT ![p] = MatFailPc]
            /\ UNCHANGED <<ddir, hs, fi>>
       ELSE /\ ddir' = [ddir EXCEPT ![p] = TRUE]
            /\ IF sino[mpath[k]] = <<>>
               THEN /\ mpc' = [mpc EXCEPT ![p] = MatFailPc]
                    /\ UNCHANGED <<hs, fi>>
               ELSE /\ mpc' = [mpc EXCEPT ![p] = MatEntryPc]
                    /\ hs' = [hs EXCEPT ![p] = sino[mpath[k]]]
                    /\ fi' = [fi EXCEPT ![p] = 1]
  /\ UNCHANGED <<taskFrame, sino, spath, stmp, mpath, mtmp, dpath, wfd, rfd,
                 cloned, how>>
  /\ UNCHANGED ingRes
  /\ tried' = [tried EXCEPT ![p] = Append(@, "cas")]
  /\ UNCHANGED noRoot
  /\ UNCHANGED shortcut
  /\ casStats' = [casStats EXCEPT ![p] = NoStats]

\* lines 2340-2345: fs::hard_link fails when the store file is missing or
\* the destination exists; the fallback is the copy
MatLink(p) ==
  /\ mpc[p] = "mat_link"
  /\ LET h == hs[p][fi[p]] IN
       IF spath[h] # 0 /\ dpath[p][fi[p]] = 0
       THEN /\ dpath' = [dpath EXCEPT ![p][fi[p]] = spath[h]]
            /\ mpc' = [mpc EXCEPT ![p] = MatNextPc(p)]
            /\ how' = [how EXCEPT ![p] = MatHow(p)]
            /\ fi' = [fi EXCEPT ![p] = NextFi(p, Len(hs[p]))]
            /\ casStats' = [casStats EXCEPT ![p] = CountLinked(@)]
       ELSE /\ mpc' = [mpc EXCEPT ![p] = "mat_open"]
            /\ UNCHANGED <<dpath, how, fi, casStats>>
  /\ UNCHANGED <<taskFrame, sino, spath, stmp, mpath, mtmp, ddir, hs, wfd, rfd,
                 cloned>>
  /\ UNCHANGED ingRes
  /\ UNCHANGED tried
  /\ UNCHANGED noRoot
  /\ UNCHANGED shortcut

\* lines 2336, 2346: fs::copy opens the store file, then creates the
\* destination or truncates the file that is there; an error is dropped
MatCopyOpen(p) ==
  /\ mpc[p] = "mat_open"
  /\ UNCHANGED <<taskFrame, spath, stmp, mpath, mtmp, ddir, hs, cloned>>
  /\ LET h == hs[p][fi[p]]
         i == IF dpath[p][fi[p]] # 0 THEN dpath[p][fi[p]] ELSE FreeIno(1) IN
       IF spath[h] = 0
       THEN /\ mpc' = [mpc EXCEPT ![p] = MatNextPc(p)]
            /\ how' = [how EXCEPT ![p] = MatHow(p)]
            /\ fi' = [fi EXCEPT ![p] = NextFi(p, Len(hs[p]))]
            /\ casStats' = [casStats EXCEPT ![p] = CountCopy(@, FALSE)]
            /\ UNCHANGED <<dpath, wfd, rfd, sino>>
       ELSE /\ mpc' = [mpc EXCEPT ![p] = "mat_write"]
            /\ rfd' = [rfd EXCEPT ![p] = spath[h]]
            /\ wfd' = [wfd EXCEPT ![p] = i]
            /\ dpath' = [dpath EXCEPT ![p][fi[p]] = i]
            /\ UNCHANGED <<how, fi, casStats>>
            /\ sino' = Reap([sino EXCEPT ![i] = <<>>])
  /\ UNCHANGED ingRes
  /\ UNCHANGED tried
  /\ UNCHANGED noRoot
  /\ UNCHANGED shortcut

\* lines 2336, 2346: fs::copy writes what it reads from the store file
MatCopyWrite(p) ==
  /\ mpc[p] = "mat_write"
  /\ mpc' = [mpc EXCEPT ![p] = MatNextPc(p)]
  /\ how' = [how EXCEPT ![p] = MatHow(p)]
  /\ fi' = [fi EXCEPT ![p] = NextFi(p, Len(hs[p]))]
  /\ wfd' = [wfd EXCEPT ![p] = 0]
  /\ rfd' = [rfd EXCEPT ![p] = 0]
  /\ UNCHANGED <<taskFrame, spath, stmp, mpath, mtmp, dpath, ddir, hs, cloned>>
  /\ sino' = Reap([sino EXCEPT ![wfd[p]] = sino[rfd[p]]])
  /\ UNCHANGED ingRes
  /\ UNCHANGED tried
  /\ UNCHANGED noRoot
  /\ UNCHANGED shortcut
  /\ casStats' = [casStats EXCEPT ![p] = CountCopy(@, TRUE)]

\* ------------------------------------------------------------ try_clonefile_dir
\* lines 653-677: clonefile(2) copies the package root to a destination that
\* does not exist; main.rs 672-680
CloneOk(p) ==
  /\ dpath' = [dpath EXCEPT ![p] = [f \in Files |-> FreeIno(f)]]
  /\ ddir' = [ddir EXCEPT ![p] = TRUE]
  /\ cloned' = [cloned EXCEPT ![p] = TRUE]
  /\ how' = [how EXCEPT ![p] = "clone"]
  /\ mpc' = [mpc EXCEPT ![p] = IF conf.dedup THEN "done" ELSE "ing_chk"]
  /\ UNCHANGED <<taskFrame, spath, stmp, mpath, mtmp, fi, hs, wfd, rfd>>
  /\ sino' = Reap([i \in SInos |->
                     IF \E f \in Files : i = FreeIno(f)
                     THEN sino[UIno(lock[p], CHOOSE f \in Files : i = FreeIno(f))]
                     ELSE sino[i]])

\* try_clonefile_dir returns false; main.rs 672-682, 694
CloneFailed(p) ==
  /\ mpc' = [mpc EXCEPT ![p] = IF conf.dedup THEN "tree_scan" ELSE "ing_chk"]
  /\ UNCHANGED <<taskFrame, sino, spath, stmp, mpath, mtmp, dpath, ddir,
                 fi, hs, wfd, rfd, cloned, how>>

\* lines 681-688: the first attempt; a destination that exists is removed
CloneDir(p) ==
  /\ mpc[p] = "clone"
  /\ IF conf.cloneWorks /\ ~ddir[p]
     THEN CloneOk(p)
     ELSE IF ddir[p]
          THEN /\ dpath' = [dpath EXCEPT ![p] = [f \in Files |-> 0]]
               /\ ddir' = [ddir EXCEPT ![p] = FALSE]
               /\ mpc' = [mpc EXCEPT ![p] = "clone_retry"]
               /\ UNCHANGED <<taskFrame, spath, stmp, mpath, mtmp, fi, hs, wfd, rfd,
                              cloned, how>>
               /\ sino' = Reap(sino)
          ELSE CloneFailed(p)
  /\ UNCHANGED ingRes
  /\ tried' = [tried EXCEPT ![p] = Append(@, "clone")]
  /\ UNCHANGED noRoot
  /\ UNCHANGED shortcut
  /\ UNCHANGED casStats

\* line 690: the second attempt
CloneRetry(p) ==
  /\ mpc[p] = "clone_retry"
  /\ IF conf.cloneWorks THEN CloneOk(p) ELSE CloneFailed(p)
  /\ UNCHANGED ingRes
  /\ UNCHANGED tried
  /\ UNCHANGED noRoot
  /\ UNCHANGED shortcut
  /\ UNCHANGED casStats

\* ------------------------------------------------------------ materialize_tree
\* lines 876-920: scan the package root, create the directories
TreeScan(p) ==
  /\ mpc[p] = "tree_scan"
  /\ mpc' = [mpc EXCEPT ![p] = "tree_file"]
  /\ ddir' = [ddir EXCEPT ![p] = TRUE]
  /\ fi' = [fi EXCEPT ![p] = 1]
  /\ UNCHANGED <<taskFrame, sino, spath, stmp, mpath, mtmp, dpath, hs, wfd, rfd,
                 cloned, how>>
  /\ UNCHANGED ingRes
  /\ tried' = [tried EXCEPT ![p] = Append(@, "tree")]
  /\ UNCHANGED noRoot
  /\ UNCHANGED shortcut
  /\ UNCHANGED casStats

TreeNextPc(p) == IF fi[p] < NChunks THEN "tree_file" ELSE "done"
\* main.rs 694-700: materialize_tree returned Ok
TreeHow(p) == IF fi[p] < NChunks THEN how[p] ELSE "tree"

\* lines 800-812, 608-619: a file task; hardlink_with_retry links the
\* destination to the unpacked file, removing a destination that exists
TreeLink(p) ==
  /\ mpc[p] = "tree_file"
  /\ IF conf.strategy = "copy"
     THEN /\ mpc' = [mpc EXCEPT ![p] = "tree_open"]
          /\ UNCHANGED <<dpath, how, fi>>
     ELSE /\ dpath' = [dpath EXCEPT ![p][fi[p]] = UIno(lock[p], fi[p])]
          /\ mpc' = [mpc EXCEPT ![p] = TreeNextPc(p)]
          /\ how' = [how EXCEPT ![p] = TreeHow(p)]
          /\ fi' = [fi EXCEPT ![p] = NextFi(p, NChunks)]
  /\ UNCHANGED <<taskFrame, spath, stmp, mpath, mtmp, ddir, hs, wfd, rfd, cloned>>
  /\ sino' = Reap(sino)
  /\ UNCHANGED ingRes
  /\ UNCHANGED tried
  /\ UNCHANGED noRoot
  /\ UNCHANGED shortcut
  /\ UNCHANGED casStats

\* lines 595-606: fs::copy creates the destination or truncates it
TreeCopyOpen(p) ==
  /\ mpc[p] = "tree_open"
  /\ mpc' = [mpc EXCEPT ![p] = "tree_write"]
  /\ LET i == IF dpath[p][fi[p]] # 0 THEN dpath[p][fi[p]] ELSE FreeIno(1) IN
       /\ wfd' = [wfd EXCEPT ![p] = i]
       /\ dpath' = [dpath EXCEPT ![p][fi[p]] = i]
       /\ UNCHANGED <<taskFrame, spath, stmp, mpath, mtmp, ddir, fi, hs, rfd,
                      cloned, how>>
       /\ sino' = Reap([sino EXCEPT ![i] = <<>>])
  /\ UNCHANGED ingRes
  /\ UNCHANGED tried
  /\ UNCHANGED noRoot
  /\ UNCHANGED shortcut
  /\ UNCHANGED casStats

\* lines 595-606: fs::copy writes the bytes of the unpacked file
TreeCopyWrite(p) ==
  /\ mpc[p] = "tree_write"
  /\ mpc' = [mpc EXCEPT ![p] = TreeNextPc(p)]
  /\ how' = [how EXCEPT ![p] = TreeHow(p)]
  /\ fi' = [fi EXCEPT ![p] = NextFi(p, NChunks)]
  /\ wfd' = [wfd EXCEPT ![p] = 0]
  /\ UNCHANGED <<taskFrame, spath, stmp, mpath, mtmp, dpath, ddir, hs, rfd, cloned>>
  /\ sino' = Reap([sino EXCEPT ![wfd[p]] = sino[UIno(lock[p], fi[p])]])
  /\ UNCHANGED ingRes
  /\ UNCHANGED tried
  /\ UNCHANGED noRoot
  /\ UNCHANGED shortcut
  /\ UNCHANGED casStats

\* ------------------------------------------------------------ install runs
\* content of a destination file
DestContent(p, f) == IF dpath[p][f] = 0 THEN NoDest ELSE sino[dpath[p][f]]

\* main.rs 707-766: every closure has returned, install reports and exits
\* with code 0
FinishInstall ==
  /\ phase = "materialize"
  /\ \A p \in Pkgs : mpc[p] = "done"
  /\ phase' = "exit0"
  /\ first' = IF run = 1 THEN [p \in Pkgs |-> [f \in Files |-> DestContent(p, f)]]
              ELSE first
  /\ UNCHANGED <<lock, run, fetchRest, conf, sino, spath, stmp, mpath, mtmp,
                 dpath, ddir, mpc, fi, hs, wfd, rfd, cloned, how>>
  /\ UNCHANGED ingRes
  /\ UNCHANGED tried
  /\ UNCHANGED noRoot
  /\ UNCHANGED shortcut
  /\ UNCHANGED casStats

\* main.rs 582-647: install is run again with the same lockfile, store and
\* project; its fetch finds every package cached
Reinstall ==
  /\ phase = "exit0"
  /\ run < MaxRuns
  /\ run' = run + 1
  /\ phase' = "materialize"
  /\ mpc' = [p \in Pkgs |-> "start"]
  /\ fi' = [p \in Pkgs |-> 1]
  /\ hs' = [p \in Pkgs |-> <<>>]
  /\ cloned' = [p \in Pkgs |-> FALSE]
  /\ how' = [p \in Pkgs |-> "none"]
  /\ UNCHANGED <<lock, fetchRest, conf, first, sino, spath, stmp, mpath, mtmp,
                 dpath, ddir, wfd, rfd>>
  /\ ingRes' = [p \in Pkgs |-> "none"]
  /\ tried' = [p \in Pkgs |-> <<>>]
  /\ shortcut' = [p \in Pkgs |-> <<>>]
  /\ UNCHANGED noRoot
  /\ casStats' = [p \in Pkgs |-> NoStats]

StoreNext ==
  \/ \E p \in Pkgs : PkgStart(p)
  \/ \E p \in Pkgs : IngestCheck(p)
  \/ \E p \in Pkgs : IngestHash(p)
  \/ \E p \in Pkgs : IngestCopyOpen(p)
  \/ \E p \in Pkgs : IngestCopyWrite(p)
  \/ \E p \in Pkgs : IngestRename(p)
  \/ \E p \in Pkgs : ManifestOpen(p)
  \/ \E p \in Pkgs : ManifestWrite(p)
  \/ \E p \in Pkgs : ManifestRename(p)
  \/ \E p \in Pkgs : MatRead(p)
  \/ \E p \in Pkgs : MatLink(p)
  \/ \E p \in Pkgs : MatCopyOpen(p)
  \/ \E p \in Pkgs : MatCopyWrite(p)
  \/ \E p \in Pkgs : CloneDir(p)
  \/ \E p \in Pkgs : CloneRetry(p)
  \/ \E p \in Pkgs : TreeScan(p)
  \/ \E p \in Pkgs : TreeLink(p)
  \/ \E p \in Pkgs : TreeCopyOpen(p)
  \/ \E p \in Pkgs : TreeCopyWrite(p)
  \/ FinishInstall
  \/ Reinstall

SpecStore == StoreInit /\ [][StoreNext]_vars

\* main.rs 542-565: the materialize command is run on the package root of a
\* package and its destination with a link strategy, after the commands
\* before it have returned
MaterializeCommand(p, s) ==
  /\ \A q \in Pkgs : mpc[q] \in {"start", "done"}
  /\ run <= MaxRuns
  /\ run' = run + 1
  /\ conf' = [conf EXCEPT !.strategy = s]
  /\ mpc' = [mpc EXCEPT ![p] = "tree_scan"]
  /\ how' = [how EXCEPT ![p] = "none"]
  /\ tried' = [tried EXCEPT ![p] = <<>>]
  /\ UNCHANGED <<lock, phase, fetchRest, first, sino, spath, stmp, mpath, mtmp, dpath,
                 ddir, fi, hs, wfd, rfd, cloned, ingRes, noRoot, shortcut, casStats>>

CommandNext ==
  \/ \E p \in Pkgs, s \in LinkStrategies : MaterializeCommand(p, s)
  \/ \E p \in Pkgs : TreeScan(p)
  \/ \E p \in Pkgs : TreeLink(p)
  \/ \E p \in Pkgs : TreeCopyOpen(p)
  \/ \E p \in Pkgs : TreeCopyWrite(p)

SpecCommand == StoreInit /\ [][CommandNext]_vars

\* install runs on the disk that may fail
MaxFaultRun == 1

\* materialize_from_file_cas, lines 2336, 2346: fs::copy returns an error of
\* the disk (no space, no permission on the destination); the entry is
\* counted as a file and the loop goes on
MatCopyFail(p) ==
  /\ mpc[p] = "mat_open"
  /\ run <= MaxFaultRun
  /\ mpc' = [mpc EXCEPT ![p] = MatNextPc(p)]
  /\ how' = [how EXCEPT ![p] = MatHow(p)]
  /\ fi' = [fi EXCEPT ![p] = NextFi(p, Len(hs[p]))]
  /\ casStats' = [casStats EXCEPT ![p] = CountCopy(@, FALSE)]
  /\ UNCHANGED <<taskFrame, sino, spath, stmp, mpath, mtmp, dpath, ddir, hs, wfd, rfd,
                 cloned, ingRes, tried, noRoot, shortcut>>

\* the materialize phase on a disk whose copies may fail, up to the start
\* of the run after the last one with faults
FaultNext ==
  \/ run <= MaxFaultRun /\ StoreNext
  \/ \E p \in Pkgs : MatCopyFail(p)

SpecStoreFaults == StoreInit /\ [][FaultNext]_vars

\* ------------------------------------------------------------ install, step 3: the error slot
\* The materialize phase of install (main.rs 646-718) with the work of a
\* closure taken as one step that succeeds or fails.

\* closures that hold a thread of the pool
Running == {p \in OPkgs : opc[p] \in {"check", "begin", "work", "err"}}

\* main.rs 649: par_iter hands a package to a free thread
OStart(p) ==
  /\ report = NoReport
  /\ opc[p] = "queued"
  /\ \E t \in 1..Threads :
       /\ \A q \in Running : othr[q] # t
       /\ othr' = [othr EXCEPT ![p] = t]
  /\ opc' = [opc EXCEPT ![p] = "check"]
  /\ startSeq' = Append(startSeq, p)
  /\ UNCHANGED <<materialize_error, failSeq, lockSeq, report, olate>>
  /\ UNCHANGED <<fetchVars, storeVars, poolVars, analyzeVars, restVars>>

\* main.rs 650: the closure returns at once when the slot holds an error
OCheck(p) ==
  /\ opc[p] = "check"
  /\ opc' = [opc EXCEPT ![p] = IF materialize_error # 0 THEN "skipped" ELSE "begin"]
  /\ UNCHANGED <<materialize_error, startSeq, failSeq, lockSeq, report, othr, olate>>
  /\ UNCHANGED <<fetchVars, storeVars, poolVars, analyzeVars, restVars>>

\* main.rs 651-661: past the check the closure starts on the ladder
OBegin(p) ==
  /\ opc[p] = "begin"
  /\ opc' = [opc EXCEPT ![p] = "work"]
  /\ olate' = [olate EXCEPT ![othr[p]] = IF materialize_error # 0 THEN @ + 1 ELSE @]
  /\ UNCHANGED <<materialize_error, startSeq, failSeq, lockSeq, report, othr>>
  /\ UNCHANGED <<fetchVars, storeVars, poolVars, analyzeVars, restVars>>

\* main.rs 661-700: a strategy of the ladder succeeds
OWorkOk(p) ==
  /\ opc[p] = "work"
  /\ opc' = [opc EXCEPT ![p] = "done"]
  /\ UNCHANGED <<materialize_error, startSeq, failSeq, lockSeq, report, othr, olate>>
  /\ UNCHANGED <<fetchVars, storeVars, poolVars, analyzeVars, restVars>>

\* main.rs 694, 701: the last strategy, materialize_tree, returns Err
OWorkErr(p) ==
  /\ opc[p] = "work"
  /\ opc' = [opc EXCEPT ![p] = "err"]
  /\ failSeq' = Append(failSeq, p)
  /\ UNCHANGED <<materialize_error, startSeq, lockSeq, report, othr, olate>>
  /\ UNCHANGED <<fetchVars, storeVars, poolVars, analyzeVars, restVars>>

\* mutant of ORecord: the slot is written whether it is empty or not
ORecordLast(p) ==
  /\ opc[p] = "err"
  /\ opc' = [opc EXCEPT ![p] = "failed"]
  /\ lockSeq' = Append(lockSeq, p)
  /\ materialize_error' = p
  /\ UNCHANGED <<startSeq, failSeq, report, othr, olate>>
  /\ UNCHANGED <<fetchVars, storeVars, poolVars, analyzeVars, restVars>>

\* main.rs 702-704: lock the slot; store the message if the slot is empty
ORecord(p) ==
  /\ opc[p] = "err"
  /\ opc' = [opc EXCEPT ![p] = "failed"]
  /\ lockSeq' = Append(lockSeq, p)
  /\ materialize_error' = IF materialize_error = 0 THEN p ELSE materialize_error
  /\ UNCHANGED <<startSeq, failSeq, report, othr, olate>>
  /\ UNCHANGED <<fetchVars, storeVars, poolVars, analyzeVars, restVars>>

\* main.rs 709-718, 745-766: every closure has returned; install reports
OReport ==
  /\ report = NoReport
  /\ \A p \in OPkgs : opc[p] \in {"done", "skipped", "failed"}
  /\ report' = IF materialize_error # 0
               THEN [ok |-> "false", reason |-> materialize_error]
               ELSE [ok |-> "true", reason |-> 0]
  /\ UNCHANGED <<opc, materialize_error, startSeq, failSeq, lockSeq, othr, olate>>
  /\ UNCHANGED <<fetchVars, storeVars, poolVars, analyzeVars, restVars>>

OrchInit ==
  /\ lock = <<K1, K2>>
  /\ FetchIdle
  /\ StoreIdle
  /\ SideIdle

OrchNext ==
  \/ \E p \in OPkgs : OStart(p)
  \/ \E p \in OPkgs : OCheck(p)
  \/ \E p \in OPkgs : OBegin(p)
  \/ \E p \in OPkgs : OWorkOk(p)
  \/ \E p \in OPkgs : OWorkErr(p)
  \/ \E p \in OPkgs : ORecord(p)
  \/ OReport

SpecOrch == OrchInit /\ [][OrchNext]_vars

\* ------------------------------------------------------------ run_materialize_tasks_parallel
\* lib.rs 763-867: the workers of one call; a task is one step that returns
\* Ok or Err

\* mutant of PCheck: the worker does not look at the slot
PCheckBlind(w) ==
  /\ wpc[w] = "check"
  /\ wpc' = [wpc EXCEPT ![w] = "pop"]
  /\ UNCHANGED <<queue, first_error, task, late, outcome, result>>
  /\ UNCHANGED <<fetchVars, storeVars, orchVars, analyzeVars, restVars>>

\* lines 782-789: the worker returns when the slot holds an error
PCheck(w) ==
  /\ wpc[w] = "check"
  /\ wpc' = [wpc EXCEPT ![w] = IF first_error # 0 THEN "exit" ELSE "pop"]
  /\ UNCHANGED <<queue, first_error, task, late, outcome, result>>
  /\ UNCHANGED <<fetchVars, storeVars, orchVars, analyzeVars, restVars>>

\* mutant of PPop: the worker takes the front task and leaves it in the queue
PPopKeep(w) ==
  /\ wpc[w] = "pop"
  /\ IF queue = 0
     THEN /\ wpc' = [wpc EXCEPT ![w] = "exit"]
          /\ UNCHANGED <<queue, task, late, outcome>>
     ELSE LET t == NTasks - queue + 1 IN
          /\ queue' = queue
          /\ task' = [task EXCEPT ![w] = t]
          /\ outcome' = [outcome EXCEPT ![t] = "running"]
          /\ late' = [late EXCEPT ![w] = IF first_error # 0 THEN @ + 1 ELSE @]
          /\ wpc' = [wpc EXCEPT ![w] = "run"]
  /\ UNCHANGED <<first_error, result>>
  /\ UNCHANGED <<fetchVars, storeVars, orchVars, analyzeVars, restVars>>

\* lines 791-795: pop_front; the worker returns when the queue is empty
PPop(w) ==
  /\ wpc[w] = "pop"
  /\ IF queue = 0
     THEN /\ wpc' = [wpc EXCEPT ![w] = "exit"]
          /\ UNCHANGED <<queue, task, late, outcome>>
     ELSE LET t == NTasks - queue + 1 IN
          /\ queue' = queue - 1
          /\ task' = [task EXCEPT ![w] = t]
          /\ outcome' = [outcome EXCEPT ![t] = "running"]
          /\ late' = [late EXCEPT ![w] = IF first_error # 0 THEN @ + 1 ELSE @]
          /\ wpc' = [wpc EXCEPT ![w] = "run"]
  /\ UNCHANGED <<first_error, result>>
  /\ UNCHANGED <<fetchVars, storeVars, orchVars, analyzeVars, restVars>>

\* lines 797-844: the task returns Ok; the loop goes round
PRunOk(w) ==
  /\ wpc[w] = "run"
  /\ outcome' = [outcome EXCEPT ![task[w]] = "ok"]
  /\ wpc' = [wpc EXCEPT ![w] = "check"]
  /\ UNCHANGED <<queue, first_error, task, late, result>>
  /\ UNCHANGED <<fetchVars, storeVars, orchVars, analyzeVars, restVars>>

\* lines 797-844: the task returns Err
PRunErr(w) ==
  /\ wpc[w] = "run"
  /\ outcome' = [outcome EXCEPT ![task[w]] = "err"]
  /\ wpc' = [wpc EXCEPT ![w] = "record"]
  /\ UNCHANGED <<queue, first_error, task, late, result>>
  /\ UNCHANGED <<fetchVars, storeVars, orchVars, analyzeVars, restVars>>

\* mutant of PRecord: the slot is written whether it is empty or not
PRecordLast(w) ==
  /\ wpc[w] = "record"
  /\ first_error' = task[w]
  /\ wpc' = [wpc EXCEPT ![w] = "exit"]
  /\ UNCHANGED <<queue, task, late, outcome, result>>
  /\ UNCHANGED <<fetchVars, storeVars, orchVars, analyzeVars, restVars>>

\* lines 846-853: store the error if the slot is empty, and return
PRecord(w) ==
  /\ wpc[w] = "record"
  /\ first_error' = IF first_error = 0 THEN task[w] ELSE first_error
  /\ wpc' = [wpc EXCEPT ![w] = "exit"]
  /\ UNCHANGED <<queue, task, late, outcome, result>>
  /\ UNCHANGED <<fetchVars, storeVars, orchVars, analyzeVars, restVars>>

\* lines 769-771, 857-866: the scope has joined every worker it spawned; Err
\* with the slot's error, Ok when it is empty
PResult ==
  /\ result = "none"
  /\ \A w \in Workers : wpc[w] \in {"exit", "unspawned"}
  /\ result' = IF first_error # 0 THEN "err" ELSE "ok"
  /\ UNCHANGED <<queue, first_error, wpc, task, late, outcome>>
  /\ UNCHANGED <<fetchVars, storeVars, orchVars, analyzeVars, restVars>>

PoolNext ==
  \/ \E w \in Workers : PCheck(w)
  \/ \E w \in Workers : PPop(w)
  \/ \E w \in Workers : PRunOk(w)
  \/ \E w \in Workers : PRunErr(w)
  \/ \E w \in Workers : PRecord(w)
  \/ PResult

\* one call of run_materialize_tasks_parallel (a run of the materialize
\* command), and once it has returned the package closures of one install
AbortNext ==
  \/ PoolNext
  \/ result # "none" /\ OrchNext

SpecPool == OrchInit /\ [][AbortNext]_vars

\* ------------------------------------------------------------ analyze
\* lib.rs 320-326: identity_key
Reliable(id) == id[1] # 0 /\ id[2] # 0
\* lib.rs 348-356: physical_len
physical_len(id) == IF BlocksOf(id) > 0 THEN BlocksOf(id) * 512 ELSE LenOf(id)

\* fields of an aggregate every file adds to: lines 1044-1061
Counted(agg, id) ==
  [agg EXCEPT !.file_count = @ + 1,
              !.logical = @ + LenOf(id),
              !.approx = @ \/ ~Reliable(id)]

\* mutant of Credited: the two arms of `if first` are swapped
CreditedSwapped(agg, id, isFirst) ==
  IF id = <<0, 0>>
  THEN [agg EXCEPT !.approx = TRUE, !.physical = @ + physical_len(id)]
  ELSE IF isFirst
       THEN [agg EXCEPT !.shared = @ + physical_len(id)]
       ELSE [agg EXCEPT !.physical = @ + physical_len(id)]

\* lines 1063-1085: the credit of a file to an aggregate; isFirst is what
\* seen_global.insert returned
Credited(agg, id, isFirst) ==
  IF id = <<0, 0>>
  THEN [agg EXCEPT !.approx = TRUE, !.physical = @ + physical_len(id)]
  ELSE IF isFirst
       THEN [agg EXCEPT !.physical = @ + physical_len(id)]
       ELSE [agg EXCEPT !.shared = @ + physical_len(id)]

\* lines 1044-1086: one file of the walk
AnalyzeFile ==
  /\ apos < Len(walk)
  /\ LET f == walk[apos + 1]
         isFirst == f.id \notin seen_global IN
       /\ totals' = Credited(Counted(totals, f.id), f.id, isFirst)
       /\ packages' = [o \in APkgs |->
                         IF o = f.owner
                         THEN Credited(Counted(packages[o], f.id), f.id, isFirst)
                         ELSE packages[o]]
       /\ seen_global' = IF f.id = <<0, 0>> THEN seen_global
                         ELSE seen_global \cup {f.id}
  /\ apos' = apos + 1
  /\ UNCHANGED walk
  /\ UNCHANGED <<fetchVars, storeVars, orchVars, poolVars, restVars>>

AnalyzeInit ==
  /\ lock = <<K1, K2>>
  /\ FetchIdle
  /\ StoreIdle
  /\ OrchStart
  /\ PoolStart
  /\ AnalyzeStart
  /\ RestIdle
  /\ walk \in [1..MaxObs -> [id : Identities, owner : Owners]]

AnalyzeNext == AnalyzeFile

SpecAnalyze == AnalyzeInit /\ [][AnalyzeNext]_vars

\* ------------------------------------------------------------ the walk of scan_tree and analyze
\* fetcher, store, orchestrator, pool and analyze aggregates at rest
CoreIdle ==
  /\ lock = <<K1, K2>>
  /\ FetchIdle
  /\ StoreIdle
  /\ OrchStart
  /\ PoolStart
  /\ AnalyzeStart
  /\ walk = <<>>

\* symlinks one path lookup follows before the system gives ELOOP
SymLoopMax == 3
\* what a symlink points to: 0 the symlink is not in the tree, 1 and 2 a
\* directory, 3 a regular file, 4 nothing
LinkTargets == 0..4

\* the tree: directory 1 (node_modules) holds the directory d (2), the
\* file f and the symlink l; d holds the file g and the symlink m.
\* stable_list_dir, lib.rs 342-346: the entries sorted by file name
Entries(dir) ==
  IF dir = 1
  THEN <<[name |-> "d", kind |-> "dir", target |-> 2],
         [name |-> "f", kind |-> "file", target |-> 0]>>
       \o (IF fsLink["l"] = 0 THEN <<>>
           ELSE <<[name |-> "l", kind |-> "symlink", target |-> fsLink["l"]]>>)
  ELSE <<[name |-> "g", kind |-> "file", target |-> 0]>>
       \o (IF fsLink["m"] = 0 THEN <<>>
           ELSE <<[name |-> "m", kind |-> "symlink", target |-> fsLink["m"]]>>)

\* lib.rs 725, 1034: ft.is_dir(), or a symlink for which fs::metadata
\* succeeds and says directory; n is the number of symlinks in the path of
\* the directory being listed
IsDirEntry(e, n) ==
  \/ e.kind = "dir"
  \/ e.kind = "symlink" /\ e.target \in {1, 2} /\ n + 1 <= SymLoopMax

\* the directory an entry is pushed as
VisitOf(e, n) ==
  [dir |-> e.target, links |-> IF e.kind = "symlink" THEN n + 1 ELSE n]

RECURSIVE Pushed(_, _)
Pushed(ents, n) ==
  IF ents = <<>> THEN <<>>
  ELSE (IF IsDirEntry(Head(ents), n) THEN <<VisitOf(Head(ents), n)>> ELSE <<>>)
       \o Pushed(Tail(ents), n)

\* lib.rs 705-737, 1018-1048: pop a directory, list it, push its
\* directories and count its other entries
WalkDir ==
  /\ wstack # <<>>
  /\ LET v == wstack[Len(wstack)]
         ents == Entries(v.dir)
         counted == {ents[i].name : i \in {j \in DOMAIN ents : ~IsDirEntry(ents[j], v.links)}} IN
       /\ wstack' = SubSeq(wstack, 1, Len(wstack) - 1) \o Pushed(ents, v.links)
       /\ wcount' = [x \in EntryNames |-> IF x \in counted THEN wcount[x] + 1 ELSE wcount[x]]
  /\ UNCHANGED <<fsLink, pureVars, countVars, coreVars>>

\* lib.rs 703, 1017: the stack holds the root
WalkInit ==
  /\ CoreIdle
  /\ PureIdle
  /\ CountIdle
  /\ fsLink \in [LinkNames -> LinkTargets]
  /\ wstack = <<[dir |-> 1, links |-> 0]>>
  /\ wcount = [x \in EntryNames |-> 0]

WalkNext == WalkDir

SpecWalk == WalkInit /\ [][WalkNext]_vars

\* ------------------------------------------------------------ analyze: packages and duplicates
\* package directories analyze finds in one walk
MaxDirs == 3
\* names of package.json, in the order of their strings
PkgNames == {"a", "b"}
\* versions of package.json as (major, minor), both of one digit, so that
\* the order of the strings is the order of the pairs
Versions == {<<1, 0>>, <<1, 2>>, <<2, 0>>}
VersionLess(u, v) == u[1] < v[1] \/ (u[1] = v[1] /\ u[2] < v[2])
\* lib.rs 1106: the text before the first '.', parsed as a number
MajorOf(v) == v[1]

\* the elements of a set of versions in the order of a BTreeSet
RECURSIVE SortedVersions(_)
SortedVersions(S) ==
  IF S = {} THEN <<>>
  ELSE LET m == CHOOSE x \in S : \A y \in S : y = x \/ VersionLess(x, y) IN
       <<m>> \o SortedVersions(S \ {m})

\* the elements of a set of numbers in increasing order
RECURSIVE SortedNats(_)
SortedNats(S) ==
  IF S = {} THEN <<>>
  ELSE LET m == CHOOSE x \in S : \A y \in S : x <= y IN
       <<m>> \o SortedNats(S \ {m})

\* lib.rs 949-1001, ensure_pkg_idx for the package directory with path
\* number path: a package per key name@version, the path added to it
Registered(pkgs, dir, path) ==
  IF \E i \in DOMAIN pkgs : pkgs[i].name = dir.name /\ pkgs[i].version = dir.version
  THEN [i \in DOMAIN pkgs |->
          IF pkgs[i].name = dir.name /\ pkgs[i].version = dir.version
          THEN [pkgs[i] EXCEPT !.paths = @ \cup {path}]
          ELSE pkgs[i]]
  ELSE Append(pkgs, [name |-> dir.name, version |-> dir.version, paths |-> {path}])

\* the packages vector after the first n directories of the walk
RECURSIVE PackagesOf(_, _)
PackagesOf(dirs, n) ==
  IF n = 0 THEN <<>> ELSE Registered(PackagesOf(dirs, n - 1), dirs[n], n)

\* lib.rs 1096-1113: the duplicate record of a name, <<>> when the name
\* has at most one version
DuplicateOf(pkgs, name) ==
  LET list == SelectSeq(pkgs, LAMBDA p : p.name = name)
      versions == {list[i].version : i \in DOMAIN list} IN
    IF Cardinality(versions) <= 1 THEN <<>>
    ELSE <<[name |-> name,
            versions |-> SortedVersions(versions),
            majors |-> SortedNats({MajorOf(v) : v \in versions}),
            count |-> Len(list)]>>

\* lib.rs 1090-1115: by_name is a BTreeMap, the records come in the order
\* of the names
DuplicatesOf(pkgs) == DuplicateOf(pkgs, "a") \o DuplicateOf(pkgs, "b")

\* analyze, lib.rs 1034-1039 and 1090-1115, on the directories of arg
ApplyDuplicates ==
  /\ ret = <<>>
  /\ ret' = <<DuplicatesOf(PackagesOf(arg, Len(arg)))>>
  /\ UNCHANGED <<arg, walkVars, countVars, coreVars>>

DupInit ==
  /\ CoreIdle
  /\ WalkIdle
  /\ CountIdle
  /\ arg \in UNION {[1..n -> [name : PkgNames, version : Versions]] : n \in 0..MaxDirs}
  /\ ret = <<>>

DupNext == ApplyDuplicates

SpecDup == DupInit /\ [][DupNext]_vars

\* ------------------------------------------------------------ directory listings
\* A directory is listed twice, as by two runs over an unchanged tree; the
\* system returns its entries in an order of its own each time.

\* entries of the directory; a file name is the number of its place in the
\* lexicographic order of the names of the directory
MaxNames == 4
FileNames == 1..MaxNames
\* the name that sorts first is a dot name: .bin for analyze (lib.rs
\* 441-443), .better_extracted for the ingester (lib.rs 1932-1934)
DotName == 1

\* the orders in which read_dir can return the entries S
Orders(S) ==
  {o \in [1..Cardinality(S) -> S] : \A i, j \in 1..Cardinality(S) : o[i] = o[j] => i = j}

NameLess(x, y) == x < y

\* mutant of stable_list_dir: the entries as read_dir returns them
ReadDirOrder(os) == os

\* lib.rs 342-346: stable_list_dir sorts the entries by file name
stable_list_dir(os) == SortSeq(os, NameLess)

IsPackageName(n) == n # DotName

\* analyze, lib.rs 1018-1086, on node_modules whose entries are package
\* directories that each hold a hard link to one file: packages holds the
\* packages in the order ensure_pkg_idx met them, and the file is credited
\* as physical to the package whose directory is popped first, the last
\* one pushed
AnalyzeListing(os) ==
  LET pkgs == SelectSeq(stable_list_dir(os), IsPackageName) IN
    [packages |-> pkgs,
     physical |-> IF pkgs = <<>> THEN 0 ELSE pkgs[Len(pkgs)]]

\* lib.rs 1003-1131, 1135-1284: two runs of analyze
ApplyAnalyzeTwice ==
  /\ ret = <<>>
  /\ ret' = <<AnalyzeListing(arg[1]), AnalyzeListing(arg[2])>>
  /\ UNCHANGED <<arg, walkVars, countVars, coreVars>>

\* ingest_to_file_cas, walk_dir, lib.rs 1917-1956: the files in the order
\* of fs::read_dir, .better_extracted left out; lines 1960-2022 and
\* 2078-2091 keep that order for the entries of the manifest
ManifestOrder(os) == SelectSeq(os, IsPackageName)

\* two ingests of one unpacked package
ApplyIngestTwice ==
  /\ ret = <<>>
  /\ ret' = <<ManifestOrder(arg[1]), ManifestOrder(arg[2])>>
  /\ UNCHANGED <<arg, walkVars, countVars, coreVars>>

ListingInit ==
  /\ CoreIdle
  /\ WalkIdle
  /\ CountIdle
  /\ \E S \in SUBSET FileNames : arg \in Orders(S) \X Orders(S)
  /\ ret = <<>>

SpecListing == ListingInit /\ [][ApplyAnalyzeTwice]_vars

SpecManifestOrder == ListingInit /\ [][ApplyIngestTwice]_vars

\* ------------------------------------------------------------ the materialize command
\* width of usize in the model; the targets of the build have 32 or 64
UsizeBits == 16
UsizeMax == 2^UsizeBits - 1
\* values of --jobs the model draws, besides UsizeMax
MaxJobsArg == 300
\* main.rs 236: the upper end of the clamp
JobsClampMax == 256
Profiles == {"auto", "io-heavy", "small-files"}
\* file tasks of the source tree
MaxFileTasks == 2

Max(x, y) == IF x > y THEN x ELSE y
Min(x, y) == IF x < y THEN x ELSE y
\* multiplication of usize, wrapping as in a release build
WrapMul(x, y) == (x * y) % (UsizeMax + 1)

\* mutant of ClampJobs: --jobs is taken as given
JobsAsGiven(n) == n

\* main.rs 235-237: --jobs accepts n > 0 and clamps it to 1..256
ClampJobs(n) == Min(Max(n, 1), JobsClampMax)

\* lib.rs 930-934, main.rs 547-551: effective_jobs
EffectiveJobs(jobs, profile) ==
  IF profile = "auto" THEN jobs
  ELSE IF profile = "io-heavy" THEN Max(WrapMul(jobs, 2), 4)
  ELSE Max(WrapMul(jobs, 3), 8)

\* lib.rs 787, 809-811, 943: every worker adds one to counters.files for
\* each file task it runs; with worker_count >= 1 the queue is drained
StatsFiles(nfiles, jobs) ==
  LET worker_count == Min(Max(jobs, 1), Max(nfiles, 1)) IN
    IF worker_count >= 1 THEN nfiles ELSE 0

\* main.rs 542-553: the materialize command with --jobs arg.n, the profile
\* arg.profile and a source tree of arg.files files, all tasks succeeding
ApplyMaterialize ==
  /\ ret = <<>>
  /\ LET jobs == ClampJobs(arg.n) IN
       ret' = <<[jobs |-> jobs,
                 effectiveJobs |-> EffectiveJobs(jobs, arg.profile),
                 poolJobs |-> EffectiveJobs(jobs, arg.profile),
                 files |-> StatsFiles(arg.files, EffectiveJobs(jobs, arg.profile))]>>
  /\ UNCHANGED <<arg, walkVars, countVars, coreVars>>

MaterializeInit ==
  /\ CoreIdle
  /\ WalkIdle
  /\ CountIdle
  /\ arg \in [n : (1..MaxJobsArg) \cup {UsizeMax}, profile : Profiles,
              files : 0..MaxFileTasks]
  /\ ret = <<>>

SpecMaterialize == MaterializeInit /\ [][ApplyMaterialize]_vars

\* ------------------------------------------------------------ cas_key_from_integrity
\* characters of an integrity string in the model
MaxIntegrityLen == 4
\* "-" the separator, "a" a letter of an algorithm name, "Q" four
\* characters of the base64 alphabet (one quantum, three bytes in the
\* source, one byte here), "!" a character outside the base64 alphabet
IntegrityChars == {"-", "a", "Q", "!"}
\* the byte a quantum decodes to
QuantumByte == 171

\* place of the first '-' of s, 0 when it has none
FirstDash(s) ==
  IF \E i \in DOMAIN s : s[i] = "-"
  THEN CHOOSE i \in DOMAIN s : s[i] = "-" /\ \A j \in 1..(i - 1) : s[j] # "-"
  ELSE 0

\* lib.rs 1656: the STANDARD engine decodes a text of whole quanta; '-' is
\* not in its alphabet
Base64Valid(t) == \A i \in DOMAIN t : t[i] = "Q"
Base64Decode(t) == [i \in DOMAIN t |-> QuantumByte]

\* lib.rs 1659: two lowercase hex digits for every byte
RECURSIVE HexOf(_)
HexOf(bytes) ==
  IF bytes = <<>> THEN <<>>
  ELSE <<Head(bytes) \div 16, Head(bytes) % 16>> \o HexOf(Tail(bytes))

NoKey == [some |-> FALSE, algo |-> <<>>, hex |-> <<>>]

\* lib.rs 1646-1662
cas_key_from_integrity(s) ==
  LET d == FirstDash(s) IN
    IF d = 0 THEN NoKey
    ELSE LET algo == SubSeq(s, 1, d - 1)
             base64_hash == SubSeq(s, d + 1, Len(s)) IN
           IF ~Base64Valid(base64_hash) THEN NoKey
           ELSE [some |-> TRUE, algo |-> algo,
                 hex |-> HexOf(Base64Decode(base64_hash))]

ApplyCasKey ==
  /\ ret = <<>>
  /\ ret' = <<cas_key_from_integrity(arg)>>
  /\ UNCHANGED <<arg, walkVars, countVars, coreVars>>

CasKeyInit ==
  /\ CoreIdle
  /\ WalkIdle
  /\ CountIdle
  /\ arg \in UNION {[1..n -> IntegrityChars] : n \in 0..MaxIntegrityLen}
  /\ ret = <<>>

SpecCasKey == CasKeyInit /\ [][ApplyCasKey]_vars

\* ------------------------------------------------------------ the lockfile parser
\* entries of the packages map of a lockfile
MaxEntries == 2
\* install-paths, as their segments between '/': the root entry, a
\* workspace, and packages at the top and nested, plain and scoped
InstallPaths ==
  {<<>>,
   <<"packages", "w">>,
   <<"node_modules", "a">>,
   <<"node_modules", "@s", "b">>,
   <<"node_modules", "a", "node_modules", "b">>,
   <<"node_modules", "a", "node_modules", "@s", "b">>}
RequiredFields == {"version", "resolved", "integrity"}
\* an entry: its install-path, whether it has a name field, and the
\* required fields it lacks
LockEntries == [path : InstallPaths, named : BOOLEAN, missing : SUBSET RequiredFields]
\* the name an entry with a name field gives
GivenName == <<"given">>

\* lib.rs 1507-1508: the key is not empty and starts with "node_modules/"
UnderNodeModules(path) == Len(path) >= 2 /\ path[1] = "node_modules"

IsScope(seg) == seg = "@s"

\* lib.rs 1607-1619: the name after the first node_modules segment, with
\* the segment that follows it when it is a scope
package_name_from_path(path) ==
  IF \E i \in DOMAIN path : path[i] = "node_modules"
  THEN LET idx == CHOOSE i \in DOMAIN path :
                    path[i] = "node_modules" /\ \A j \in 1..(i - 1) : path[j] # "node_modules" IN
         IF idx + 1 <= Len(path)
         THEN IF IsScope(path[idx + 1]) /\ idx + 2 <= Len(path)
              THEN <<path[idx + 1], path[idx + 2]>>
              ELSE <<path[idx + 1]>>
         ELSE <<"unknown">>
  ELSE <<"unknown">>

\* lib.rs 1551-1556: the first required field the entry lacks
FirstMissing(e) ==
  IF "version" \in e.missing THEN "version"
  ELSE IF "resolved" \in e.missing THEN "resolved" ELSE "integrity"

\* lib.rs 1546-1563: parse_package_entry
parse_package_entry(e) ==
  IF e.missing # {}
  THEN [ok |-> FALSE, field |-> FirstMissing(e), path |-> e.path, name |-> <<>>]
  ELSE [ok |-> TRUE, field |-> "", path |-> e.path,
        name |-> IF e.named THEN GivenName ELSE package_name_from_path(e.path)]

\* lib.rs 1503-1523: the entries under node_modules/ are parsed; an entry
\* whose parse is Ok is pushed, an Err is dropped
RECURSIVE ParsedPackages(_)
ParsedPackages(entries) ==
  IF entries = <<>> THEN <<>>
  ELSE (IF UnderNodeModules(Head(entries).path) /\ parse_package_entry(Head(entries)).ok
        THEN <<[rel_path |-> Head(entries).path,
                name |-> parse_package_entry(Head(entries)).name]>>
        ELSE <<>>)
       \o ParsedPackages(Tail(entries))

\* lib.rs 1413-1423, 1425-1544: resolve_from_lockfile on a lockfile that
\* has a packages map
ApplyResolve ==
  /\ ret = <<>>
  /\ ret' = <<[ok |-> TRUE, packages |-> ParsedPackages(arg), error |-> <<>>]>>
  /\ UNCHANGED <<arg, walkVars, countVars, coreVars>>

LockfileInit ==
  /\ CoreIdle
  /\ WalkIdle
  /\ CountIdle
  /\ arg \in UNION {[1..n -> LockEntries] : n \in 0..MaxEntries}
  /\ ret = <<>>

SpecLockfile == LockfileInit /\ [][ApplyResolve]_vars

\* ------------------------------------------------------------ is_package_dir
\* components of a directory path
MaxDepth == 3
DirNames == {"node_modules", "@s", ".bin", ".h", "a"}
DirPaths == UNION {[1..n -> DirNames] : n \in 0..MaxDepth}

FirstChar(name) ==
  CASE name = "node_modules" -> "n"
    [] name = "@s" -> "@"
    [] name \in {".bin", ".h"} -> "."
    [] OTHER -> "a"

\* a directory is given to every caller, whatever its parent
AnyParent(dir) == TRUE

\* lib.rs 430-434: the name of the directory begins with '@'
is_scope_dir(dir) == dir # <<>> /\ FirstChar(dir[Len(dir)]) = "@"

\* Path::parent, for a path that has one
ParentOf(dir) == SubSeq(dir, 1, Len(dir) - 1)

\* lib.rs 436-465
is_package_dir(dir) ==
  IF dir = <<>> THEN FALSE
  ELSE LET name == dir[Len(dir)] IN
    IF name = ".bin" \/ FirstChar(name) = "." THEN FALSE
    ELSE LET parent == ParentOf(dir) IN
      IF parent # <<>> /\ parent[Len(parent)] = "node_modules"
      THEN FirstChar(name) # "@"
      ELSE IF parent = <<>> THEN FALSE
      ELSE LET grand == ParentOf(parent) IN
        grand # <<>> /\ grand[Len(grand)] = "node_modules" /\ is_scope_dir(parent)

ApplyIsPackageDir ==
  /\ ret = <<>>
  /\ ret' = <<is_package_dir(arg)>>
  /\ UNCHANGED <<arg, walkVars, countVars, coreVars>>

PackageDirInit ==
  /\ CoreIdle
  /\ WalkIdle
  /\ CountIdle
  /\ arg \in DirPaths
  /\ ret = <<>>

SpecPackageDir == PackageDirInit /\ [][ApplyIsPackageDir]_vars

\* ------------------------------------------------------------ the link/copy phase of materialize_tree
\* lib.rs 936-946: one call of run_materialize_tasks_parallel on the tasks
\* of the scan; arg is [strategy, kinds], kinds the kind of every task
TaskKinds == {"file", "symlink"}
\* what fs::hard_link gives: Ok, or an error of one of the three classes
LinkOutcomes == {"ok", "eperm", "exdev", "other"}

\* lines 816-822: the class of the link error
AfterLinkError(c, err) ==
  IF err = "eperm" THEN [c EXCEPT !.fallback_eperm = @ + 1]
  ELSE IF err = "exdev" THEN [c EXCEPT !.fallback_exdev = @ + 1]
  ELSE [c EXCEPT !.fallback_other = @ + 1]

\* mutant of AfterCopy: a fallback copy is not counted as one
AfterCopyUncounted(c, fallback) == [c EXCEPT !.files_copied = @ + 1]

\* lines 801-807, 823-831: the copy is Ok
AfterCopy(c, fallback) ==
  [c EXCEPT !.files_copied = @ + 1,
            !.link_fallback_copies = IF fallback THEN @ + 1 ELSE @]

\* lines 798-836: a file task, with the outcome of its link and of its copy
FileTask(c, strategy, link, copyOk) ==
  LET c1 == [c EXCEPT !.files = @ + 1] IN
    IF strategy = "copy"
    THEN IF copyOk THEN [ok |-> TRUE, c |-> AfterCopy(c1, FALSE)]
         ELSE [ok |-> FALSE, c |-> c1]
    ELSE IF link = "ok"
         THEN [ok |-> TRUE, c |-> [c1 EXCEPT !.files_linked = @ + 1]]
         ELSE IF copyOk
              THEN [ok |-> TRUE, c |-> AfterCopy(AfterLinkError(c1, link), TRUE)]
              ELSE [ok |-> FALSE, c |-> AfterLinkError(c1, link)]

\* lines 837-843: a symlink task
SymlinkTask(c, made) ==
  IF made THEN [ok |-> TRUE, c |-> [c EXCEPT !.symlinks = @ + 1]]
  ELSE [ok |-> FALSE, c |-> c]

\* lines 797-853: the worker runs the task it popped
PRunTask(w) ==
  /\ wpc[w] = "run"
  /\ \E link \in LinkOutcomes, done \in BOOLEAN :
       LET r == IF arg.kinds[task[w]] = "file"
                THEN FileTask(counters, arg.strategy, link, done)
                ELSE SymlinkTask(counters, done) IN
         /\ counters' = r.c
         /\ outcome' = [outcome EXCEPT ![task[w]] = IF r.ok THEN "ok" ELSE "err"]
         /\ wpc' = [wpc EXCEPT ![w] = IF r.ok THEN "check" ELSE "record"]
  /\ execs' = [execs EXCEPT ![task[w]] = @ + 1]
  /\ UNCHANGED <<queue, first_error, task, late, result>>
  /\ UNCHANGED <<fetchVars, storeVars, orchVars, analyzeVars, walkVars, pureVars>>

TasksInit ==
  /\ CoreIdle
  /\ WalkIdle
  /\ CountIdle
  /\ arg \in [strategy : LinkStrategies, kinds : [Tasks -> TaskKinds]]
  /\ ret = <<>>

TasksNext ==
  \/ \E w \in Workers : PCheck(w)
  \/ \E w \in Workers : PPop(w)
  \/ \E w \in Workers : PRunTask(w)
  \/ \E w \in Workers : PRecord(w)
  \/ PResult

SpecTasks == TasksInit /\ [][TasksNext]_vars

\* ------------------------------------------------------------ the workers of the pool
\* arg is [jobs, tasks]: the jobs argument and the length of the task list

\* mutant of worker_count: jobs is not raised to 1
WorkerCountNoFloor(jobs, n) == Min(jobs, Max(n, 1))

\* lib.rs 774: jobs.max(1).min(len.max(1))
worker_count(jobs, n) == Min(Max(jobs, 1), Max(n, 1))

\* lib.rs 769-780: no worker for an empty list, worker_count workers otherwise
SizedInit ==
  /\ lock = <<K1, K2>>
  /\ FetchIdle
  /\ StoreIdle
  /\ OrchStart
  /\ AnalyzeStart
  /\ walk = <<>>
  /\ WalkIdle
  /\ CountIdle
  /\ ret = <<>>
  /\ arg \in [jobs : 0..Jobs, tasks : 0..NTasks]
  /\ queue = arg.tasks
  /\ first_error = 0
  /\ wpc = [w \in Workers |->
              IF arg.tasks # 0 /\ w <= worker_count(arg.jobs, arg.tasks)
              THEN "check" ELSE "unspawned"]
  /\ task = [w \in Workers |-> 0]
  /\ late = [w \in Workers |-> 0]
  /\ outcome = [t \in Tasks |-> "queued"]
  /\ result = "none"

\* the steps of one worker thread
WorkerStep(w) == PCheck(w) \/ PPop(w) \/ PRunOk(w) \/ PRunErr(w) \/ PRecord(w)

\* every thread is scheduled, every file system call of a task returns, and
\* the scope returns once its threads have
SpecPoolSized ==
  /\ SizedInit
  /\ [][PoolNext]_vars
  /\ \A w \in Workers : WF_vars(WorkerStep(w))
  /\ WF_vars(PResult)

\* ------------------------------------------------------------ the cache gc command
\* files under store/tarballs (archives and .verified sentinels) and under
\* store/unpacked (.better_extracted markers and extracted files)
GcNames ==
  {<<"tarball", k, 0>> : k \in Keys} \cup {<<"verified", k, 0>> : k \in Keys}
    \cup {<<"marker", k, 0>> : k \in Keys}
    \cup {<<"file", k, i>> : k \in Keys, i \in 1..NChunks}

\* entry.metadata(): whether the file is there, its mtime and its length
GcMeta(n) ==
  LET k == n[2] IN
    CASE n[1] = "tarball" ->
           IF tarPath[k] = 0 THEN [exists |-> FALSE, mt |-> 0, len |-> 0]
           ELSE [exists |-> TRUE, mt |-> ino[tarPath[k]].mt, len |-> Len(ino[tarPath[k]].c)]
      [] n[1] = "verified" ->
           [exists |-> verified[k] # Absent, mt |-> verified[k], len |-> 0]
      [] n[1] = "marker" ->
           [exists |-> marker[k] # Absent, mt |-> marker[k], len |-> 0]
      [] OTHER ->
           [exists |-> unpacked[k][n[3]].v # 0, mt |-> unpacked[k][n[3]].mt, len |-> 1]

\* mutant of GcVisit: only a file that is removed is counted
GcVisitRemovedOnly(acc, n, cutoff, dry_run) ==
  LET md == GcMeta(n) IN
    IF md.exists /\ Expired(md.mt, cutoff) /\ ~dry_run
    THEN [removed |-> acc.removed + 1, freed |-> acc.freed + md.len,
          gone |-> acc.gone \cup {n}]
    ELSE acc

\* lib.rs 3723-3730: a file older than the cutoff is counted, and removed
\* unless the run is dry
GcVisit(acc, n, cutoff, dry_run) ==
  LET md == GcMeta(n) IN
    IF md.exists /\ Expired(md.mt, cutoff)
    THEN [removed |-> acc.removed + 1, freed |-> acc.freed + md.len,
          gone |-> IF dry_run THEN acc.gone ELSE acc.gone \cup {n}]
    ELSE acc

\* lib.rs 3710-3733: the walk over the files of the two directories
RECURSIVE gc_walk(_, _, _, _)
gc_walk(names, cutoff, dry_run, acc) ==
  IF names = {} THEN acc
  ELSE LET n == CHOOSE x \in names : TRUE IN
         gc_walk(names \ {n}, cutoff, dry_run, GcVisit(acc, n, cutoff, dry_run))

\* lib.rs 3693-3708, main.rs 1107-1119: cache gc between two installs; the
\* result holds the report with the cutoff of the run
GcCommand(cutoff, dry_run) ==
  /\ phase \in {"init", "exit0", "exit1"}
  /\ ret = <<>>
  /\ LET w == gc_walk(GcNames, cutoff, dry_run, [removed |-> 0, freed |-> 0, gone |-> {}]) IN
       /\ ret' = <<[removed |-> w.removed, freed_bytes |-> w.freed,
                    dry_run |-> dry_run, cutoff |-> cutoff]>>
       /\ tarPath' = [k \in Keys |-> IF <<"tarball", k, 0>> \in w.gone THEN 0 ELSE tarPath[k]]
       /\ verified' = [k \in Keys |->
                         IF <<"verified", k, 0>> \in w.gone THEN Absent ELSE verified[k]]
       /\ marker' = [k \in Keys |->
                       IF <<"marker", k, 0>> \in w.gone THEN Absent ELSE marker[k]]
       /\ unpacked' = [k \in Keys |-> [i \in 1..NChunks |->
                         IF <<"file", k, i>> \in w.gone THEN NoFile ELSE unpacked[k][i]]]
       /\ swept' = (swept \/ w.gone # {})
  /\ ino' = LiveInos(ino, tmpPath, tarPath', fd)
  /\ UNCHANGED <<lock, now, tmpPath, pc, fd, off, body, werr, fetchErr,
                 fetched, cached, phase, run, matDone, rep, envFault>>
  /\ UNCHANGED <<storeVars, orchVars, poolVars, analyzeVars, walkVars, countVars, arg>>

\* install runs before the run of cache gc under check
GcAfterRuns == 1

\* installs and sweeps, then the one run of cache gc under check
GcNext ==
  \/ ret = <<>> /\ run <= GcAfterRuns /\ FetchNext
  \/ \E cutoff \in 1..now, dry_run \in BOOLEAN : GcCommand(cutoff, dry_run)

SpecGc == FetchInit /\ [][GcNext]_vars

\* ------------------------------------------------------------ JsonWriter
\* calls of one writer
MaxCalls == 6
JsonCalls == {"begin_object", "end_object", "begin_array", "end_array", "key", "value"}

\* lib.rs 176-182: JsonWriter::new; out is the text as its tokens
NewWriter == [out |-> <<>>, stack_first |-> <<>>, after_key |-> FALSE]

\* mutant of push_comma_if_needed: the comma does not depend on the flag
PushCommaAlways(w) ==
  IF w.stack_first = <<>> THEN w ELSE [w EXCEPT !.out = Append(@, ",")]

\* lib.rs 188-196
push_comma_if_needed(w) ==
  IF w.stack_first = <<>> THEN w
  ELSE IF ~w.stack_first[Len(w.stack_first)]
       THEN [w EXCEPT !.out = Append(@, ",")]
       ELSE [w EXCEPT !.stack_first[Len(w.stack_first)] = FALSE]

\* lines 199-203, 259-263: what every value and every opening bracket starts with
BeforeValue(w) ==
  IF w.after_key THEN [w EXCEPT !.after_key = FALSE] ELSE push_comma_if_needed(w)

\* lines 198-206, 213-221: begin_object and begin_array
BeginContainer(w, bracket) ==
  [BeforeValue(w) EXCEPT !.out = Append(@, bracket), !.stack_first = Append(@, TRUE)]

\* lines 208-211, 223-226: end_object and end_array; Vec::pop of an empty
\* stack does nothing
EndContainer(w, bracket) ==
  [w EXCEPT !.out = Append(@, bracket),
            !.stack_first = IF @ = <<>> THEN @ ELSE SubSeq(@, 1, Len(@) - 1)]

\* lines 228-233: key
WriteKey(w) ==
  [push_comma_if_needed(w) EXCEPT !.out = @ \o <<"k", ":">>, !.after_key = TRUE]

\* lines 258-314: value_string, value_bool, value_null, value_u64, value_i64,
\* value_f64
WriteValue(w) == [BeforeValue(w) EXCEPT !.out = Append(@, "v")]

JsonCall(w, c) ==
  CASE c = "begin_object" -> BeginContainer(w, "{")
    [] c = "end_object" -> EndContainer(w, "}")
    [] c = "begin_array" -> BeginContainer(w, "[")
    [] c = "end_array" -> EndContainer(w, "]")
    [] c = "key" -> WriteKey(w)
    [] OTHER -> WriteValue(w)

RECURSIVE RunCalls(_, _)
RunCalls(calls, n) ==
  IF n = 0 THEN NewWriter ELSE JsonCall(RunCalls(calls, n - 1), calls[n])

\* the containers open after the first n calls, innermost last, and whether
\* a key waits for its value; ok is FALSE when the calls are not well nested
RECURSIVE OpenAfter(_, _)
OpenAfter(calls, n) ==
  IF n = 0 THEN [open |-> <<>>, keyed |-> FALSE, ok |-> TRUE]
  ELSE LET s == OpenAfter(calls, n - 1)
           c == calls[n]
           top == IF s.open = <<>> THEN "none" ELSE s.open[Len(s.open)] IN
    IF ~s.ok THEN s
    ELSE IF c = "key"
         THEN [s EXCEPT !.ok = ~s.keyed, !.keyed = TRUE]
    ELSE IF c = "value"
         THEN [s EXCEPT !.keyed = FALSE]
    ELSE IF c \in {"begin_object", "begin_array"}
         THEN [open |-> Append(s.open, IF c = "begin_object" THEN "object" ELSE "array"),
               keyed |-> FALSE, ok |-> TRUE]
    ELSE [open |-> IF s.open = <<>> THEN <<>> ELSE SubSeq(s.open, 1, Len(s.open) - 1),
          keyed |-> FALSE,
          ok |-> /\ ~s.keyed
                 /\ top = (IF c = "end_object" THEN "object" ELSE "array")]

\* call sequences a caller makes: every end closes the container that is
\* open, and a key is followed by its value
WellNested(calls) == OpenAfter(calls, Len(calls)).ok

ApplyJsonCalls ==
  /\ ret = <<>>
  /\ ret' = <<RunCalls(arg, Len(arg))>>
  /\ UNCHANGED <<arg, walkVars, countVars, coreVars>>

JsonInit ==
  /\ CoreIdle
  /\ WalkIdle
  /\ CountIdle
  /\ arg \in {calls \in UNION {[1..n -> JsonCalls] : n \in 1..MaxCalls} : WellNested(calls)}
  /\ ret = <<>>

SpecJson == JsonInit /\ [][ApplyJsonCalls]_vars

\* ------------------------------------------------------------ claims on the fetcher

\* C1 (archive integrity): every tarball at its final path whose .verified
\* sentinel exists hashes to its key. Stated for the keys whose algorithm the
\* fetcher compares digests for (sha512).
C1_ArchiveIntegrity ==
  \A k \in Keys :
    (k.algo = "sha512" /\ tarPath[k] # 0 /\ verified[k] # Absent)
      => Digest(k.algo, ino[tarPath[k]].c) = k.hex

\* C2 (concurrency safety on one key): when two tasks work on the same key,
\* the server sends the right body and no disk or network call fails, no
\* task ends with an error.
C2_SameKeyNoError ==
  (lock[1] = lock[2] /\ ~envFault) => \A p \in Pkgs : pc[p] # "failed"

\* C5 as stated (install idempotence, counters): of two installs of one
\* lockfile of N packages, from an empty store and with nothing else touching
\* the store, the first reports fetched = N, cached = 0 and the second
\* fetched = 0, cached = N.
C5_CountersAsStated ==
  /\ rep[1].ok = "ok" => (rep[1].fetched = Cardinality(Pkgs) /\ rep[1].cached = 0)
  /\ (rep[1].ok = "ok" /\ rep[2].ok = "ok" /\ ~swept)
       => (rep[2].fetched = 0 /\ rep[2].cached = Cardinality(Pkgs))

\* the integrities of the lockfile are pairwise distinct
DistinctKeys == \A p, q \in Pkgs : p # q => lock[p] # lock[q]

\* C5 amended: the same, for a lockfile whose packages have pairwise
\* distinct integrity digests.
C5_Counters == DistinctKeys => C5_CountersAsStated

C5_Witness ==
  DistinctKeys /\ rep[1].ok = "ok" /\ rep[2].ok = "ok" /\ ~swept

\* C8 (unpacked completeness): after any runs and sweeps, an unpacked
\* directory that holds the extraction marker holds the whole tree of its
\* tarball: no entry of the archive is missing from it.
C8_UnpackedComplete ==
  \A k \in Keys :
    marker[k] # Absent => \A i \in 1..NChunks : unpacked[k][i].v # 0

\* C9 (fetcher postcondition): when fetch_packages has returned success,
\* both sentinels of every package of the list exist.
C9_BothSentinels ==
  phase = "materialize" =>
    \A p \in Pkgs : verified[lock[p]] # Absent /\ marker[lock[p]] # Absent

\* fetch_packages succeeds in a second run, after a first run that failed
C9_Witness == phase = "materialize" /\ run = 2 /\ rep[1].ok = "fail"

\* C10 (integrity mismatch): a task whose downloaded body does not hash to
\* the expected hex under the key's algorithm fails at the comparison: it
\* never renames the temp file, writes no sentinel and no marker, and the
\* install materializes nothing and exits with code 1.
C10_MismatchFails ==
  \A p \in Pkgs :
    (body[p] # <<>> /\ Digest(lock[p].algo, body[p]) # lock[p].hex
       /\ pc[p] \notin {"write", "verify"})
      => (pc[p] = "failed" /\ phase \in {"fetch", "exit1"} /\ matDone = {})

\* ------------------------------------------------------------ claims on the file store

\* C3 (atomic publication): whenever a final store path exists its content
\* is the complete artifact: a file at files/sha256/<hex> hashes to <hex>
\* and a manifest.json lists every file of the package. Checked during the
\* first install, where every destination is new and nothing is written
\* through a link into the store.
C3_AtomicPublication ==
  run = 1 =>
    /\ \A h \in Hashes : spath[h] # 0 => Sha256(sino[spath[h]]) = h
    /\ \A k \in StoreKeys : mpath[k] # 0 => Len(sino[mpath[k]]) = NChunks

\* C4 (file-store immutability): once a file exists at its store path, it
\* exists with the same content in every later state. Checked for lockfiles
\* of pairwise distinct integrities, where no two tasks write one temp path.
C4_StoreImmutable ==
  [][DistinctKeys =>
       \A h \in Hashes :
         spath[h] # 0 => (spath'[h] # 0 /\ sino'[spath'[h]] = sino[spath[h]])]_vars

\* C6 (install idempotence, destinations): after a second install with the
\* same lockfile, store and project, every file of every destination has
\* the content it had after the first install. Checked for lockfiles of
\* pairwise distinct integrities.
C6_DestinationsUnchanged ==
  (DistinctKeys /\ run = 2 /\ phase = "exit0")
    => \A p \in Pkgs : \A f \in Files : DestContent(p, f) = first[p][f]

\* C7 (materialization equivalence): when install has finished, the
\* destination of every package for which a strategy reported success holds
\* every file of the package root with the bytes of the unpacked file.
\* Checked for lockfiles of pairwise distinct integrities.
C7_DestEqualsUnpacked ==
  (DistinctKeys /\ phase = "exit0")
    => \A p \in Pkgs :
         how[p] # "none"
           => \A f \in Files : DestContent(p, f) = sino[UIno(lock[p], f)]

\* C11 (manifest coverage): after ingest_to_file_cas has returned Ok for a
\* package, the manifest of its key exists, lists every file of the package
\* root once and nothing else, and every hash it lists exists in the store.
C11_ManifestCoverage ==
  \A p \in Pkgs :
    ingRes[p] = "ok" =>
      /\ mpath[lock[p]] # 0
      /\ DOMAIN sino[mpath[lock[p]]] = Files
      /\ \A i \in DOMAIN sino[mpath[lock[p]]] : spath[sino[mpath[lock[p]]][i]] # 0

\* C12 (install success means every package is installed): when install has
\* reported ok, the destination of every package of the lockfile exists and
\* holds every file of the archive. Checked on the first install of a
\* lockfile of pairwise distinct integrities.
C12_AllInstalled ==
  (phase = "exit0" /\ run = 1 /\ DistinctKeys)
    => \A p \in Pkgs :
         ddir[p] /\ \A f \in Files : DestContent(p, f) = FileOf(lock[p], f)

\* ------------------------------------------------------------ claims on the error slot

\* position of package p in a sequence of packages (0: not in it)
PosIn(seq, p) ==
  IF \E i \in 1..Len(seq) : seq[i] = p
  THEN CHOOSE i \in 1..Len(seq) : seq[i] = p /\ \A j \in 1..(i - 1) : seq[j] # p
  ELSE 0

\* C13 as stated (first-error reporting): when packages have failed, the
\* report carries ok: false and the reason is that of the first failure in
\* scheduling order: of the failed package that was started first, or of
\* the package that failed first.
C13_FirstBySchedule ==
  (report # NoReport /\ failSeq # <<>>)
    => /\ report.ok = "false"
       /\ \/ report.reason = Head(failSeq)
          \/ \A q \in OPkgs :
               PosIn(failSeq, q) # 0
                 => PosIn(startSeq, report.reason) <= PosIn(startSeq, q)

\* C13 amended: when packages have failed, the report carries ok: false and
\* the reason is that of the failed package whose closure was the first to
\* lock the error slot; when none has failed the report carries ok: true.
C13_FirstToLock ==
  report # NoReport
    => /\ report.ok = (IF failSeq # <<>> THEN "false" ELSE "true")
       /\ failSeq # <<>> => report.reason = Head(lockSeq)

\* two packages have failed and the reason is not that of the first failure
C13_Witness ==
  /\ report.ok = "false"
  /\ Len(failSeq) >= 2
  /\ report.reason # Head(failSeq)

\* ------------------------------------------------------------ claims on the strategy ladder

IsPrefix(s, t) == Len(s) <= Len(t) /\ \A i \in 1..Len(s) : s[i] = t[i]
IsStrategy(c) == c # "ingest"
\* the strategies the closure of package p has attempted, in order
Strategies(p) == SelectSeq(tried[p], IsStrategy)
\* main.rs 661-694: the calls of the closure when every strategy fails
Ladder == IF conf.dedup THEN <<"ingest", "cas", "clone", "tree">>
          ELSE <<"clone", "ingest", "cas", "tree">>

\* C14 (strategy ladder order): the closure of a package calls the
\* strategies in the order of the ladder (dedup on: file store, clone, tree
\* copy; dedup off: clone, file store, tree copy), the strategy that
\* succeeded is the last one it attempted, and with dedup off a closure
\* that ends after a successful clone has run the ingestion after it.
C14_LadderOrder ==
  \A p \in Pkgs :
    /\ IsPrefix(tried[p], Ladder)
    /\ how[p] # "none"
         => /\ Strategies(p) # <<>>
            /\ Strategies(p)[Len(Strategies(p))] = how[p]
    /\ (mpc[p] = "done" /\ how[p] = "clone" /\ ~conf.dedup)
         => tried[p] = <<"clone", "ingest">>

\* with dedup off one closure has ended after clone and ingestion
C14_Witness ==
  /\ ~conf.dedup
  /\ \E p \in Pkgs :
       mpc[p] = "done" /\ how[p] = "clone" /\ tried[p] = <<"clone", "ingest">>

\* C15 as stated: with link strategy copy no closure calls the clone
\* primitive.
C15_NoCloneUnderCopy ==
  conf.strategy = "copy" => \A p \in Pkgs : \A i \in DOMAIN tried[p] : tried[p][i] # "clone"

\* ------------------------------------------------------------ claims on temp paths and downloads

\* the temp path a task is publishing through, <<>> when it publishes nothing:
\* lines 1723-1771 (fetcher), 1981-1992 (store file), 2125-2130 (manifest)
TempOf(p) ==
  IF phase = "fetch" /\ pc[p] \in {"write", "verify", "rename"}
    THEN <<"tgz", lock[p]>>
  ELSE IF phase = "materialize" /\ mpc[p] \in {"ing_write", "ing_rename"}
    THEN <<"file", hs[p][fi[p]]>>
  ELSE IF phase = "materialize" /\ mpc[p] \in {"man_write", "man_rename"}
    THEN <<"manifest", lock[p]>>
  ELSE <<>>

\* C16 as stated (temp files unique per writer): no two tasks that are
\* publishing at the same time go through the same temp path.
C16_TempUnique ==
  \A p, q \in Pkgs :
    (p # q /\ TempOf(p) # <<>>) => TempOf(p) # TempOf(q)

\* C17 as stated (each archive fetched exactly once): within one run of the
\* fetch no archive key is downloaded by more than one task, and a task
\* that found both sentinels has downloaded nothing.
C17_FetchedOnce ==
  \A p, q \in Pkgs :
    (p # q /\ lock[p] = lock[q]) => (body[p] = <<>> \/ body[q] = <<>>)

\* ------------------------------------------------------------ claims on the abort

\* C18 (first error aborts remaining work): after the error slot of
\* run_materialize_tasks_parallel is set each worker pops at most one more
\* task, and a worker that has seen the slot set is gone; after the error
\* slot of install is set each thread lets at most one more closure past
\* its check; every task that was started is either held by its worker or
\* has run to its end, and nothing is in flight when the result is given.
C18_AbortRemaining ==
  /\ \A w \in Workers : late[w] <= 1
  /\ \A t \in 1..Threads : olate[t] <= 1
  /\ \A t \in Tasks :
       outcome[t] = "running" => \E w \in Workers : wpc[w] = "run" /\ task[w] = t
  /\ result # "none" => \A t \in Tasks : outcome[t] # "running"
  /\ result = "ok" => \A t \in Tasks : outcome[t] = "ok"
  /\ report # NoReport => \A p \in OPkgs : opc[p] \in {"done", "skipped", "failed"}
  /\ \A p \in OPkgs : opc[p] = "skipped" => materialize_error # 0

\* a worker of the pool and a thread of install have each started one task
\* after the slot was set, and both have finished
C18_Witness ==
  /\ result = "err"
  /\ report.ok = "false"
  /\ \E w \in Workers : late[w] = 1
  /\ \E t \in 1..Threads : olate[t] = 1

\* ------------------------------------------------------------ claims on analyze

\* the files counted so far all have a reliable identity
ReliableSoFar == \A i \in 1..apos : Reliable(walk[i].id)
\* file i is the first of the walk with its identity
FirstObs(i) == \A j \in 1..(i - 1) : walk[j].id # walk[i].id
\* physical lengths of the first n files that are first observations (or
\* are not, with isFirst = FALSE) and belong to owner o (any owner when o = -1)
RECURSIVE SumObs(_, _, _)
SumObs(n, isFirst, o) ==
  IF n = 0 THEN 0
  ELSE SumObs(n - 1, isFirst, o)
       + (IF FirstObs(n) = isFirst /\ (o = -1 \/ walk[n].owner = o)
          THEN physical_len(walk[n].id) ELSE 0)

\* C19 as stated (dedup accounting): when the tree holds one file k times
\* under one reliable identity, physical is the length of the file, shared
\* is k-1 times that length, and logical = physical + shared.
C19_DedupAccounting ==
  (/\ apos = Len(walk)
   /\ apos > 0
   /\ ReliableSoFar
   /\ \A i \in 1..apos : walk[i].id = walk[1].id)
    => /\ totals.physical = LenOf(walk[1].id)
       /\ totals.shared = (apos - 1) * LenOf(walk[1].id)
       /\ totals.logical = totals.physical + totals.shared

\* C20 (attribution order): while every identity met is reliable, physical
\* of the totals and of each package is the sum over the first observations
\* (of that package), shared is the sum over the later observations (of
\* that package), and every file counted is in one of the two.
C20_AttributionOrder ==
  ReliableSoFar
    => /\ totals.physical = SumObs(apos, TRUE, -1)
       /\ totals.shared = SumObs(apos, FALSE, -1)
       /\ \A o \in APkgs :
            /\ packages[o].physical = SumObs(apos, TRUE, o)
            /\ packages[o].shared = SumObs(apos, FALSE, o)
       /\ totals.file_count = apos
       /\ seen_global = {walk[i].id : i \in 1..apos}

\* a file met first under package 1 and again under package 2
C20_Witness ==
  /\ apos >= 2
  /\ ReliableSoFar
  /\ walk[1].id = walk[2].id
  /\ walk[1].owner = 1
  /\ walk[2].owner = 2
  /\ packages[1].physical > 0
  /\ packages[2].shared > 0

\* sum of one field of the aggregates of packages 1..n
RECURSIVE SumPkgs(_, _)
SumPkgs(n, field) ==
  IF n = 0 THEN 0 ELSE SumPkgs(n - 1, field) + packages[n][field]

\* C21 as stated (totals equal the per-package sums): at the end of the
\* walk totals.logical is the sum of the logical bytes of the packages and
\* totals.file_count the sum of their file counts.
C21_TotalsArePackageSums ==
  apos = Len(walk)
    => /\ totals.logical = SumPkgs(Cardinality(APkgs), "logical")
       /\ totals.file_count = SumPkgs(Cardinality(APkgs), "file_count")

\* ------------------------------------------------------------ claims on the walk

\* C22 as stated (each file attributed exactly once): when the walk has
\* ended, every file of the tree and every symlink that is not a directory
\* has been counted exactly once.
C22_CountedOnce ==
  wstack = <<>>
    => /\ wcount["f"] = 1
       /\ wcount["g"] = 1
       /\ \A x \in LinkNames : fsLink[x] \in {3, 4} => wcount[x] = 1

\* ------------------------------------------------------------ claims on duplicates

\* installed instances of a name, and their versions
InstancesOf(name) == {i \in DOMAIN arg : arg[i].name = name}
InstalledVersions(name) == {arg[i].version : i \in InstancesOf(name)}

\* C23 as stated (duplicate detection): a name has a duplicate record
\* exactly when more than one version of it is installed, and the record
\* lists the versions in sorted order, the majors, and as count the number
\* of installed instances of the name.
C23_DuplicateRecords ==
  ret # <<>>
    => \A name \in PkgNames :
         LET recs == SelectSeq(ret[1], LAMBDA d : d.name = name) IN
           /\ Len(recs) = (IF Cardinality(InstalledVersions(name)) > 1 THEN 1 ELSE 0)
           /\ \A i \in DOMAIN recs :
                /\ recs[i].versions = SortedVersions(InstalledVersions(name))
                /\ recs[i].majors = SortedNats({MajorOf(v) : v \in InstalledVersions(name)})
                /\ recs[i].count = Cardinality(InstancesOf(name))

\* ------------------------------------------------------------ claims on directory listings

\* C24 (analyze is deterministic): two runs of analyze over an unchanged
\* tree give the same report, whatever order the system returns the
\* directory entries in.
C24_AnalyzeDeterministic ==
  ret # <<>> => ret[1] = ret[2]

\* the system returned the entries in two different orders
C24_Witness ==
  /\ ret # <<>>
  /\ arg[1] # arg[2]
  /\ Len(ret[1].packages) >= 2

\* C25 as stated (deterministic listings for the manifest writer): the
\* entries of the manifest are in lexicographic order of file name, and two
\* ingests of an unchanged package give the same order.
C25_ManifestSorted ==
  ret # <<>>
    => /\ ret[1] = ret[2]
       /\ \A i, j \in DOMAIN ret[1] : i < j => NameLess(ret[1][i], ret[1][j])

\* ------------------------------------------------------------ claims on the materialize command

C27_ShortcutFrame ==
  [][\A p \in Pkgs :
       (mpc[p] = "ing_chk" /\ mpc'[p] # "ing_chk" /\ mpath[lock[p]] # 0)
         => /\ shortcut'[p] = <<[reused |-> TRUE, new_files |-> 0,
                                 total_files |-> Len(sino[mpath[lock[p]]])]>>
            /\ mpc'[p] \notin {"ing_hash", "ing_open", "ing_write", "ing_rename",
                               "man_open", "man_write", "man_rename"}
            /\ UNCHANGED <<sino, spath, stmp, mpath, mtmp>>]_vars

\* a closure has taken the shortcut on a manifest that lists every file
C27_Witness ==
  \E p \in Pkgs :
    /\ shortcut[p] # <<>>
    /\ shortcut[p][1].reused
    /\ shortcut[p][1].total_files = NChunks
    /\ mpc[p] # "ing_chk"

\* ------------------------------------------------------------ claims on integrity parsing

\* C28 as stated (integrity parsing): the result is the text before the
\* first '-' and the hex of the decoded text after it; there is no result
\* when there is no '-', when either half is empty or when the base64 is
\* invalid, so a key never has an empty algorithm or an empty hex.
C28_IntegrityParsing ==
  ret # <<>>
    => LET d == FirstDash(arg)
           tail == SubSeq(arg, d + 1, Len(arg))
           good == /\ d > 1
                   /\ d < Len(arg)
                   /\ Base64Valid(tail) IN
         /\ ret[1].some = good
         /\ ret[1].some
              => /\ ret[1].algo = SubSeq(arg, 1, d - 1)
                 /\ ret[1].hex = HexOf(Base64Decode(tail))
                 /\ ret[1].algo # <<>>
                 /\ ret[1].hex # <<>>

\* ------------------------------------------------------------ claims on the lockfile parser

\* entries of the lockfile under node_modules, and those of them that lack
\* a required field
Installable == {i \in DOMAIN arg : UnderNodeModules(arg[i].path)}
Incomplete == {i \in Installable : arg[i].missing # {}}

\* C29 as stated (lockfile entries emitted): when every entry under
\* node_modules has its required fields, the records are those entries in
\* order and no other; when one lacks a field, resolve fails with an error
\* that names a field the entry lacks and its install-path.
C29_EntriesEmitted ==
  ret # <<>>
    => IF Incomplete = {}
       THEN /\ ret[1].ok
            /\ Len(ret[1].packages) = Cardinality(Installable)
            /\ \A i \in DOMAIN ret[1].packages : UnderNodeModules(ret[1].packages[i].rel_path)
       ELSE /\ ~ret[1].ok
            /\ \E i \in Incomplete : \E f \in arg[i].missing :
                 ret[1].error = <<f, arg[i].path>>

\* the name the install-path ends in
LastName(path) ==
  IF Len(path) >= 2 /\ IsScope(path[Len(path) - 1])
  THEN <<path[Len(path) - 1], path[Len(path)]>>
  ELSE <<path[Len(path)]>>

\* C30 as stated (lockfile name derivation): a record of an entry without a
\* name field has the name its install-path ends in.
C30_NameFromPath ==
  ret # <<>>
    => \A i \in DOMAIN arg :
         (UnderNodeModules(arg[i].path) /\ arg[i].missing = {} /\ ~arg[i].named)
           => \E j \in DOMAIN ret[1].packages :
                /\ ret[1].packages[j].rel_path = arg[i].path
                /\ ret[1].packages[j].name = LastName(arg[i].path)

\* ------------------------------------------------------------ claims on is_package_dir

\* the name of the directory n levels above the last component, "" when
\* there is none
NameAbove(dir, n) == IF Len(dir) > n THEN dir[Len(dir) - n] ELSE ""

\* C31 (package-directory detection): is_package_dir(d) is true exactly when
\* the parent of d is named node_modules and the name of d begins with
\* neither '@' nor '.', or the grandparent of d is named node_modules, the
\* name of the parent begins with '@' and the name of d does not begin
\* with '.'.
C31_PackageDir ==
  ret # <<>>
    => (ret[1] <=>
          /\ arg # <<>>
          /\ \/ /\ NameAbove(arg, 1) = "node_modules"
                /\ FirstChar(NameAbove(arg, 0)) \notin {"@", "."}
             \/ /\ NameAbove(arg, 2) = "node_modules"
                /\ Len(arg) >= 2
                /\ FirstChar(NameAbove(arg, 1)) = "@"
                /\ FirstChar(NameAbove(arg, 0)) # ".")

\* a scoped package was recognised
C31_Witness ==
  /\ ret = <<TRUE>>
  /\ Len(arg) = 3
  /\ arg[2] = "@s"

\* ------------------------------------------------------------ claims on the file-store counters

\* C32 as stated (no file lost silently): when materialize_from_file_cas has
\* returned ok for a package, every file entry of its manifest exists at its
\* destination path and was counted as linked or as copied, so
\* files = linked + copied.
C32_NoFileLost ==
  \A p \in Pkgs :
    how[p] = "cas"
      => /\ casStats[p].files = casStats[p].linked + casStats[p].copied
         /\ \A i \in DOMAIN hs[p] : dpath[p][i] # 0

\* ------------------------------------------------------------ claims on the source of materialize_tree

\* C33 as stated (materialization leaves its source unchanged): every file
\* of every package root keeps its content, whatever the link strategy and
\* the destination.
C33_SourceUnchanged ==
  \A k \in StoreKeys, f \in Files : sino[UIno(k, f)] = FileOf(k, f)

\* ------------------------------------------------------------ claims on the counters of materialize_tree

\* tasks of a kind the scan has found
TasksOfKind(kind) == Cardinality({t \in Tasks : arg.kinds[t] = kind})

\* C37 (counter conservation): when materialize_tree returns Ok,
\* files = files_linked + files_copied, files and symlinks are the numbers of
\* file and symlink tasks, link_fallback_copies is the sum of the three
\* fallback counters and at most files_copied, and with the copy strategy
\* nothing is linked and no copy is a fallback.
C37_CounterConservation ==
  (arg # <<>> /\ result = "ok")
    => /\ counters.files = counters.files_linked + counters.files_copied
       /\ counters.files + counters.symlinks = TasksOfKind("file") + TasksOfKind("symlink")
       /\ counters.files = TasksOfKind("file")
       /\ counters.link_fallback_copies
            = counters.fallback_eperm + counters.fallback_exdev + counters.fallback_other
       /\ counters.link_fallback_copies <= counters.files_copied
       /\ arg.strategy = "copy"
            => counters.files_linked = 0 /\ counters.link_fallback_copies = 0

\* a call has returned Ok after a link, a fallback copy and a symlink
C37_Witness ==
  /\ arg # <<>>
  /\ result = "ok"
  /\ counters.files_linked > 0
  /\ counters.link_fallback_copies > 0
  /\ counters.symlinks > 0

\* C34 (exactly-once execution): no task is run twice, and when the call
\* returns Ok every task has been run exactly once.
C34_ExactlyOnce ==
  /\ \A t \in Tasks : execs[t] <= 1
  /\ (arg # <<>> /\ result = "ok") => \A t \in Tasks : execs[t] = 1

\* two workers have shared the tasks of a call that returned Ok
C34_Witness ==
  /\ arg # <<>>
  /\ result = "ok"
  /\ \A t \in Tasks : execs[t] = 1
  /\ \E w1, w2 \in Workers : w1 # w2 /\ task[w1] # 0 /\ task[w2] # 0

\* ------------------------------------------------------------ claims on the workers of the pool

\* workers the call has spawned
Spawned == {w \in Workers : wpc[w] # "unspawned"}

\* the call has returned, every worker it spawned has exited, and it had
\* spawned min(max(jobs, 1), tasks) of them
PoolReturned ==
  /\ result # "none"
  /\ \A w \in Spawned : wpc[w] = "exit"
  /\ Cardinality(Spawned) = Min(Max(arg.jobs, 1), arg.tasks)

\* C35 (the pool terminates): for every task list, every jobs value and
\* every pattern of task failures the workers exit and the function
\* returns, having spawned min(max(jobs, 1), number of tasks) workers.
C35_PoolTerminates == <>PoolReturned

\* a call with jobs = 0 has returned after its worker ran into a failure
C35_Witness ==
  /\ arg # <<>>
  /\ arg.jobs = 0
  /\ arg.tasks = NTasks
  /\ result = "err"
  /\ Cardinality(Spawned) = 1

\* ------------------------------------------------------------ claims on the two error slots

\* C36 (the error slot is written at most once): a slot that is set keeps
\* its message, in the pool and in the install orchestrator; the pool
\* returns Err exactly when its slot is set, and install reports ok: false
\* exactly when its slot is set, with the message of the slot.
C36_SlotWrittenOnce ==
  [][/\ first_error # 0 => first_error' = first_error
     /\ materialize_error # 0 => materialize_error' = materialize_error
     /\ result' # "none" => (result' = "err" <=> first_error' # 0)
     /\ report' # NoReport
          => /\ report'.ok = "false" <=> materialize_error' # 0
             /\ report'.reason = materialize_error']_vars

\* both components have failed after a second failure met a slot that was set
C36_Witness ==
  /\ result = "err"
  /\ Cardinality({t \in Tasks : outcome[t] = "err"}) >= 2
  /\ report # NoReport
  /\ report.ok = "false"
  /\ Len(lockSeq) >= 2

\* ------------------------------------------------------------ claims on the fetch counters

\* C38 (fetch counters partition the input): when fetch_packages has
\* returned success, packages_fetched + packages_cached is the number of
\* packages.
C38_CountersPartition ==
  phase \in {"materialize", "exit0"} => fetched + cached = Cardinality(Pkgs)

\* a fetch has returned success with a package downloaded and a package cached
C38_Witness ==
  /\ phase = "materialize"
  /\ fetched >= 1
  /\ cached >= 1

\* ------------------------------------------------------------ claims on cache gc

\* files of the swept directories that exist
GcExisting == {n \in GcNames : GcMeta(n).exists}
\* those of them whose age exceeds the maximum: modified before the cutoff
GcOld(cutoff) == {n \in GcExisting : GcMeta(n).mt < cutoff}

RECURSIVE SumLen(_)
SumLen(names) ==
  IF names = {} THEN 0
  ELSE LET n == CHOOSE x \in names : TRUE IN GcMeta(n).len + SumLen(names \ {n})

\* C39 (cache gc): a dry run changes nothing in the store; a dry run and a
\* real run report the number and the bytes of the files older than the
\* cutoff, hence the same; a real run removes those files and no other, and
\* no run changes the file store or the manifests.
C39_GcDryRun ==
  [][(ret = <<>> /\ ret' # <<>>)
       => /\ ret'[1].removed = Cardinality(GcOld(ret'[1].cutoff))
          /\ ret'[1].freed_bytes = SumLen(GcOld(ret'[1].cutoff))
          /\ ret'[1].dry_run
               => UNCHANGED <<tmpPath, tarPath, verified, marker, unpacked, ino>>
          /\ ~ret'[1].dry_run => GcExisting' = GcExisting \ GcOld(ret'[1].cutoff)
          /\ UNCHANGED <<sino, spath, stmp, mpath, mtmp, dpath>>]_vars

\* a real run has removed files and left newer ones
C39_Witness ==
  /\ ret # <<>>
  /\ ~ret[1].dry_run
  /\ ret[1].removed > 0
  /\ ret[1].freed_bytes > 0
  /\ GcExisting # {}

\* a dry run has counted files it left in place
C39_DryWitness ==
  /\ ret # <<>>
  /\ ret[1].dry_run
  /\ ret[1].removed > 0
  /\ GcOld(ret[1].cutoff) # {}

\* ------------------------------------------------------------ claims on JsonWriter

\* tokens that start and that end a sibling
ItemStarts == {"k", "v", "{", "["}
ItemEnds == {"v", "}", "]"}
\* containers open before token i of the text
DepthBefore(out, i) ==
  Cardinality({j \in 1..(i - 1) : out[j] \in {"{", "["}})
    - Cardinality({j \in 1..(i - 1) : out[j] \in {"}", "]"}})

\* C40 (comma state machine): in the text of a well-nested call sequence a
\* comma stands between two siblings and nowhere else (not after an opening
\* bracket, not between a key and its value, not before a closing bracket,
\* not twice), two siblings of a container have a comma between them, and
\* stack_first is as deep as the containers that are open.
C40_CommaStateMachine ==
  ret # <<>>
    => LET out == ret[1].out IN
         /\ \A i \in 1..(Len(out) - 1) :
              /\ out[i] = "," => out[i + 1] \in ItemStarts
              /\ out[i + 1] = "," => out[i] \in ItemEnds
              /\ (out[i] \in ItemEnds /\ out[i + 1] \in ItemStarts)
                   => DepthBefore(out, i + 1) = 0
         /\ out # <<>> => out[1] # "," /\ out[Len(out)] # ","
         /\ Len(ret[1].stack_first) = Len(OpenAfter(arg, Len(arg)).open)

\* an object with one member, closed, in an array that is still open, after
\* another element
C40_Witness ==
  /\ ret # <<>>
  /\ ret[1].out = <<"[", "v", ",", "{", "k", ":", "v", "}">>
  /\ ret[1].stack_first = <<FALSE>>

====
